---- MODULE Spec2Model ----
(***************************************************************************)
(* LunaEye voice front end: the conversation state machine (StateManager), *)
(* the recognition supervisor and command dispatch (VoiceManager) and the  *)
(* backend channel (LunaAPIClient), as an event-driven state machine.      *)
(*                                                                         *)
(* One action is one browser task: an event handler or a timer callback,   *)
(* together with every promise continuation (microtask) it makes runnable. *)
(* A continuation that waits for a timer, for the speech synthesizer, for  *)
(* getUserMedia or for the backend is a stored position that a later       *)
(* action resumes.  Handlers are written as functions from a state record  *)
(* to a state record, composed in the order of the statements of the code. *)
(***************************************************************************)
EXTENDS Integers, Sequences, FiniteSets, TLC

VARIABLES
    currentState,        \* StateManager.currentState
    previousState,       \* StateManager.previousState ("none" is null)
    stateHistory,        \* StateManager.stateHistory: the state left by each
                         \*   transition, and when
    postTransitions,     \* armed post-transition timers of setState, oldest first
    lastCall,            \* what the last call of setState returned, and the
                         \*   callbacks it invoked, in the order it invoked them
    isListening,         \* VoiceManager lifecycle flags
    isRestarting,
    isPaused,
    isSpeaking,
    isInConversation,
    useLocalDetection,   \* VoiceManager.config.useLocalDetection
    consecutiveErrors,
    pendingRestart,      \* VoiceManager.pendingRestart is a timer handle (TRUE) or null
    restartTimers,       \* armed scheduled-restart timers
    listeningTimeout,    \* handle: "null", "live" (its timer is armed) or "stale"
    listeningTimers,     \* armed listening-timeout timers
    conversationTimeout, \* handle, as listeningTimeout
    conversationTimers,  \* armed conversation-timeout timers
    recognition,         \* the SpeechRecognition object: inactive, starting, active, stopping
    audioStream,         \* an active microphone stream is held
    utterances,          \* speechSynthesis: utterance id -> "free", "playing", "cancelled"
    currentSpeechResolve,\* id of the utterance whose promise resolver is stored, 0 for null
    waits,               \* suspended continuations: a bag (kind -> count)
    dispatch,            \* the onCommandReceived activations
    localMonitors,       \* running monitorAudio loops of the local detector
    speechDetector,      \* the local detector: isSpeaking, silence ("few" or "over" 30 frames)
    lunaAPI,             \* window.LunaAPI: "absent" or "present"
    isConnected,         \* LunaAPIClient.isConnected
    useWebSocket,        \* LunaAPIClient.config.useWebSocket
    onResponse,          \* LunaAPIClient handlers: 0 is the application's handler,
    onError,             \*   r > 0 the closure processCommand made for request r
    onToolStart,
    requests,            \* the processCommand promises and their closures
    onStateChange,       \* LunaAPIClient.onStateChange: "app" (initApiConnection) or "ui"
    lateSpeaks,          \* utterances a handleLateResponse activation awaits
    budget,              \* remaining environment events of each kind
    obs,                 \* history variables read by the properties only
    extraction,          \* a call of extractCommandFromTranscript: the wake phrase
                         \*   and the command text it is given and what it returned
    threadId,            \* LunaAPIClient.threadId
    outbound,            \* the messages LunaAPIClient sent to the backend, in order
    client               \* LunaAPIClient's sockets and its queue of messages

vars == <<currentState, previousState, stateHistory, postTransitions, lastCall,
          isListening, isRestarting,
          isPaused, isSpeaking, isInConversation, useLocalDetection,
          consecutiveErrors, pendingRestart, restartTimers, listeningTimeout,
          listeningTimers, conversationTimeout, conversationTimers, recognition,
          audioStream, utterances, currentSpeechResolve, waits, dispatch,
          localMonitors, speechDetector, lunaAPI, isConnected, useWebSocket,
          onResponse, onError, onToolStart, requests, onStateChange, lateSpeaks,
          budget, obs, extraction, threadId, outbound, client>>

----------------------------------------------------------------------------
(* Bounds of the model *)

\* inputs of the environment in one behaviour (see Budgets)
MaxEvents == 2
\* concurrent onCommandReceived activations that are followed
MaxDispatch == 2
\* utterances the synthesizer holds at once (speaking or cancelled, event pending)
MaxUtterances == 3
\* transcripts the recognizer delivers in one run
MaxTranscripts == 2
\* taps on the microphone button in one run
MaxTaps == 2
\* recognizer faults (spontaneous end, error) in one run
MaxFaults == 2
\* processCommand promises (and their closures) alive at once
MaxRequests == 2
\* messages the backend sends besides its answers (tool.start, state.change)
MaxBackendEvents == 2
\* frames of the local detector that change its state, in one run
MaxFrames == 2
\* calls of the StateManager's interface that are followed in one behaviour
MaxCalls == 3
\* post-transition timers armed at once
MaxPostTransitions == 2

(* Program constants *)

\* StateManager.setState: "if (this.stateHistory.length > 50) shift()"
HistoryLimit == 50
\* minimum command length: "command.length > 2"
MinCommandLength == 2
\* onRecognitionError: "if (this.consecutiveErrors >= 2)"
NetworkErrorThreshold == 2

----------------------------------------------------------------------------
(* Strings are sequences of one-character strings. *)

PunctuationChars == {".", ",", "!", "?"}

\* String.prototype.trim
RECURSIVE TrimLeft(_)
TrimLeft(s) ==
    IF s # <<>> /\ Head(s) = " " THEN TrimLeft(Tail(s)) ELSE s

RECURSIVE TrimRight(_)
TrimRight(s) ==
    IF s # <<>> /\ s[Len(s)] = " " THEN TrimRight(SubSeq(s, 1, Len(s) - 1)) ELSE s

Trim(s) == TrimRight(TrimLeft(s))

\* .replace(/[.,!?]/g, '')
RECURSIVE StripPunctuation(_)
StripPunctuation(s) ==
    IF s = <<>> THEN <<>>
    ELSE IF Head(s) \in PunctuationChars THEN StripPunctuation(Tail(s))
    ELSE <<Head(s)>> \o StripPunctuation(Tail(s))

\* .replace(/\s+/g, ' ')
RECURSIVE CollapseSpaces(_)
CollapseSpaces(s) ==
    IF s = <<>> THEN <<>>
    ELSE IF Head(s) = " " /\ Tail(s) # <<>> /\ Head(Tail(s)) = " "
         THEN CollapseSpaces(Tail(s))
    ELSE <<Head(s)>> \o CollapseSpaces(Tail(s))

\* String.prototype.indexOf, 1-based; 0 when absent
IndexOf(s, w) ==
    LET hits == {i \in 1..(Len(s) - Len(w) + 1) : SubSeq(s, i, i + Len(w) - 1) = w}
    IN IF hits = {} THEN 0 ELSE CHOOSE i \in hits : \A j \in hits : i <= j

Includes(s, w) == IndexOf(s, w) # 0

\* String.prototype.toLowerCase on the letters A-Z
LowerCase ==
    [c \in {"A","B","C","D","E","F","G","H","I","J","K","L","M",
            "N","O","P","Q","R","S","T","U","V","W","X","Y","Z"} |->
        CASE c = "A" -> "a" [] c = "B" -> "b" [] c = "C" -> "c" [] c = "D" -> "d"
          [] c = "E" -> "e" [] c = "F" -> "f" [] c = "G" -> "g" [] c = "H" -> "h"
          [] c = "I" -> "i" [] c = "J" -> "j" [] c = "K" -> "k" [] c = "L" -> "l"
          [] c = "M" -> "m" [] c = "N" -> "n" [] c = "O" -> "o" [] c = "P" -> "p"
          [] c = "Q" -> "q" [] c = "R" -> "r" [] c = "S" -> "s" [] c = "T" -> "t"
          [] c = "U" -> "u" [] c = "V" -> "v" [] c = "W" -> "w" [] c = "X" -> "x"
          [] c = "Y" -> "y" [] c = "Z" -> "z"]

ToLowerCase(s) ==
    [i \in 1..Len(s) |-> IF s[i] \in DOMAIN LowerCase THEN LowerCase[s[i]] ELSE s[i]]

\* the cleaning both detectWakeWord and extractCommandFromTranscript apply
CleanTranscript(t) == Trim(CollapseSpaces(StripPunctuation(ToLowerCase(t))))

wakeWord == <<"h","e","y"," ","l","u","n","a">>

alternativeWakeWords ==
    << <<"l","u","n","a">>,
       <<"h","e","y"," ","l","u","n","a">>,
       <<"o","k"," ","l","u","n","a">>,
       <<"l","u","d","a">>,
       <<"h","e","y"," ","l","u","d","a">>,
       <<"o","k"," ","l","u","d","a">> >>

allWakeWords == <<wakeWord>> \o alternativeWakeWords

\* wakeWord.toLowerCase().replace(/\s+/g, ' ').trim()
CleanWakeWord(w) == Trim(CollapseSpaces(ToLowerCase(w)))

\* detectWakeWord that looks for this.wakeWord only
detectWakeWordPrimaryOnly(transcript) ==
    Includes(CleanTranscript(transcript), CleanWakeWord(wakeWord))

detectWakeWord(transcript) ==
    \E k \in 1..Len(allWakeWords) :
        Includes(CleanTranscript(transcript), CleanWakeWord(allWakeWords[k]))

\* the first wake word of the list that occurs is cut away with what precedes it
extractCommandFromTranscript(transcript) ==
    LET clean == CleanTranscript(transcript)
        found == {k \in 1..Len(allWakeWords) :
                      Includes(clean, CleanWakeWord(allWakeWords[k]))}
    IN IF found = {} THEN clean
       ELSE LET k == CHOOSE i \in found : \A j \in found : i <= j
                w == CleanWakeWord(allWakeWords[k])
            IN Trim(SubSeq(clean, IndexOf(clean, w) + Len(w), Len(clean)))

----------------------------------------------------------------------------
(* The state as one record, so that handlers compose. *)

States == {"idle", "waking", "listening", "thinking", "speaking", "error"}

Dispatches == 1..MaxDispatch
Utterances == 1..MaxUtterances

\* continuations suspended on a timer or on getUserMedia that carry no data
WaitKinds ==
    {"syncDelay",      \* state-change listener, delay(150)
     "forceDelay",     \* forceRestartRecognition called by the listener, delay(100)
     "intrDelay",      \* interruptSpeaking, delay(300)
     "convDelay",      \* conversation-timeout callback, delay(50)
     "wakeCmd",        \* onWakeWordDetected, setTimeout 600: dispatch the command
     "wakeListen",     \* onWakeWordDetected, setTimeout 600: enter listening
     "intrCmd",        \* handleRecognitionResult after an interruption, setTimeout 300
     "intrListen",
     "permWebNone",    \* startWebSpeechDetection waiting for getUserMedia
     "permWebIntr",    \* the same, called by interruptSpeaking
     "permLocalNone",  \* startLocalDetection waiting for getUserMedia
     "permLocalIntr",
     "localCmd"}       \* onLocalCommandDetected, setTimeout 1500

Requests == 1..MaxRequests

\* pc: free, ws (awaiting request req), rest (awaiting fetch), speak (awaiting
\* utterance utt), ttsDelay (delay 200), forceDelay (delay 100), perm
\* (getUserMedia, for the local detector if local), errorDelay (delay 1500)
FreeDispatch == [pc |-> "free", utt |-> 0, req |-> 0, local |-> FALSE, action |-> "none"]

\* st: free, pending, resolved; timer: none, initial (15 s), extended (60 s);
\* orig*: the handlers processCommand saved; disp: the dispatch that awaits;
\* backend: the backend has still to answer this request
FreeRequest == [st |-> "free", toolInProgress |-> FALSE, timer |-> "none",
                origResponse |-> 0, origError |-> 0, origToolStart |-> 0,
                disp |-> 0, backend |-> FALSE, timedOut |-> FALSE]

S == [currentState |-> currentState, previousState |-> previousState,
      stateHistory |-> stateHistory, isListening |-> isListening,
      isRestarting |-> isRestarting, isPaused |-> isPaused,
      isSpeaking |-> isSpeaking, isInConversation |-> isInConversation,
      useLocalDetection |-> useLocalDetection,
      consecutiveErrors |-> consecutiveErrors,
      pendingRestart |-> pendingRestart, restartTimers |-> restartTimers,
      listeningTimeout |-> listeningTimeout, listeningTimers |-> listeningTimers,
      conversationTimeout |-> conversationTimeout,
      conversationTimers |-> conversationTimers,
      recognition |-> recognition, audioStream |-> audioStream,
      utterances |-> utterances, currentSpeechResolve |-> currentSpeechResolve,
      waits |-> waits, dispatch |-> dispatch, localMonitors |-> localMonitors,
      speechDetector |-> speechDetector, lunaAPI |-> lunaAPI,
      isConnected |-> isConnected, useWebSocket |-> useWebSocket,
      onResponse |-> onResponse, onError |-> onError, onToolStart |-> onToolStart,
      requests |-> requests, onStateChange |-> onStateChange,
      lateSpeaks |-> lateSpeaks,
      budget |-> budget, obs |-> obs,
      overflow |-> FALSE]

\* the step ends in state record r; a step that needs more than the bounds
\* allow (r.overflow) is not taken
Commit(r) ==
  \E s \in {r} :
    /\ ~s.overflow
    /\ currentState' = s.currentState
    /\ previousState' = s.previousState
    /\ stateHistory' = s.stateHistory
    \* no transition callback is registered and the subscribers are modelled by
    \* StateChangeListener: the timers and the callbacks of setState have no effect
    /\ UNCHANGED <<postTransitions, lastCall, extraction, threadId, outbound, client>>
    /\ isListening' = s.isListening
    /\ isRestarting' = s.isRestarting
    /\ isPaused' = s.isPaused
    /\ isSpeaking' = s.isSpeaking
    /\ isInConversation' = s.isInConversation
    /\ useLocalDetection' = s.useLocalDetection
    /\ consecutiveErrors' = s.consecutiveErrors
    /\ pendingRestart' = s.pendingRestart
    /\ restartTimers' = s.restartTimers
    /\ listeningTimeout' = s.listeningTimeout
    /\ listeningTimers' = s.listeningTimers
    /\ conversationTimeout' = s.conversationTimeout
    /\ conversationTimers' = s.conversationTimers
    /\ recognition' = s.recognition
    /\ audioStream' = s.audioStream
    /\ utterances' = s.utterances
    /\ currentSpeechResolve' = s.currentSpeechResolve
    /\ waits' = s.waits
    /\ dispatch' = s.dispatch
    /\ localMonitors' = s.localMonitors
    /\ speechDetector' = s.speechDetector
    /\ lunaAPI' = s.lunaAPI
    /\ isConnected' = s.isConnected
    /\ useWebSocket' = s.useWebSocket
    /\ onResponse' = s.onResponse
    /\ onError' = s.onError
    /\ onToolStart' = s.onToolStart
    /\ requests' = s.requests
    /\ onStateChange' = s.onStateChange
    /\ lateSpeaks' = s.lateSpeaks
    /\ budget' = s.budget
    /\ obs' = s.obs

AddWait(s, k) == [s EXCEPT !.waits[k] = @ + 1]
DelWait(s, k) == [s EXCEPT !.waits[k] = @ - 1]
\* an input of the environment is taken from its own budget and from the
\* budget of all inputs
Spend(s, what) == [s EXCEPT !.budget[what] = @ - 1, !.budget.events = @ - 1]
Can(what) == budget[what] > 0 /\ budget.events > 0

----------------------------------------------------------------------------
(* VoiceManager: timers of the supervisor and of the conversation *)

\* clearTimeout(this.pendingRestart); this.pendingRestart = null
CancelPendingRestart(s) ==
    IF s.pendingRestart
    THEN [s EXCEPT !.restartTimers = IF @ > 0 THEN @ - 1 ELSE 0,
                   !.pendingRestart = FALSE]
    ELSE s

\* scheduleRestart that does not cancel the pending timer
scheduleRestartKeepingPending(s) ==
    IF s.isPaused THEN s
    ELSE [s EXCEPT !.pendingRestart = TRUE, !.restartTimers = @ + 1]

scheduleRestart(s) ==
    LET s1 == CancelPendingRestart(
                  [s EXCEPT !.obs.superseded = @ \/ s.pendingRestart])
    IN IF s1.isPaused THEN s1
       ELSE [s1 EXCEPT !.pendingRestart = TRUE, !.restartTimers = @ + 1]

\* clearTimeout on a handle whose timer has fired does nothing
clearListeningTimeout(s) ==
    IF s.listeningTimeout = "null" THEN s
    ELSE [s EXCEPT !.listeningTimers =
                       IF s.listeningTimeout = "live" /\ @ > 0 THEN @ - 1 ELSE @,
                   !.listeningTimeout = "null"]

startListeningTimeout(s) ==
    [clearListeningTimeout(s) EXCEPT !.listeningTimeout = "live",
                                     !.listeningTimers = @ + 1]

\* the handle is dropped without clearTimeout
clearConversationTimeoutLeavingTimer(s) ==
    IF s.conversationTimeout = "null" THEN s
    ELSE [s EXCEPT !.conversationTimeout = "null"]

clearConversationTimeout(s) ==
    IF s.conversationTimeout = "null" THEN s
    ELSE [s EXCEPT !.conversationTimers =
                       IF s.conversationTimeout = "live" /\ @ > 0 THEN @ - 1 ELSE @,
                   !.conversationTimeout = "null"]

startConversationTimeout(s) ==
    [clearConversationTimeout(s) EXCEPT !.conversationTimeout = "live",
                                        !.conversationTimers = @ + 1]

----------------------------------------------------------------------------
(* StateManager *)

isValidState(state) == state \in States

\* the subscriber without "this.isInConversation = false"
StateChangeListenerKeepingConversation(s, newState) ==
    IF newState = "listening" THEN AddWait(s, "syncDelay")
    ELSE IF newState = "idle" /\ s.isInConversation
    THEN IF ~s.isListening /\ ~s.isRestarting /\ ~s.isPaused
            /\ ~s.useLocalDetection
         THEN scheduleRestart(s)
         ELSE s
    ELSE s

\* the VoiceManager's stateChange subscriber, up to its first await
StateChangeListener(s, newState) ==
    IF newState = "listening" THEN AddWait(s, "syncDelay")
    ELSE IF newState = "idle" /\ s.isInConversation
    THEN LET s1 == [s EXCEPT !.isInConversation = FALSE]
         IN IF ~s1.isListening /\ ~s1.isRestarting /\ ~s1.isPaused
               /\ ~s1.useLocalDetection
            THEN scheduleRestart(s1)
            ELSE s1
    ELSE s

\* Date.now() of a push: later than every timestamp the history holds
Now(h) ==
    LET stamps == {h[k].timestamp : k \in 1..Len(h)}
    IN IF stamps = {} THEN 1
       ELSE 1 + CHOOSE n \in stamps : \A m \in stamps : m <= n

PushHistory(h, state) ==
    LET h1 == Append(h, [state |-> state, timestamp |-> Now(h)])
    IN IF Len(h1) > HistoryLimit THEN Tail(h1) ELSE h1

setState(s, newState) ==
    IF ~isValidState(newState) THEN s
    ELSE IF s.currentState = newState THEN s
    ELSE LET s1 == [s EXCEPT !.stateHistory = PushHistory(@, s.currentState),
                             !.previousState = s.currentState,
                             !.currentState = newState]
         IN StateChangeListener(s1, newState)

----------------------------------------------------------------------------
(* StateManager with its callbacks: what a call returns and which callbacks it
   invokes, with a subscriber on every event key and a callback on both
   transition events *)

\* the values setState is called with; "bogus" is not a state
StateArguments == States \cup {"bogus"}

SM == [currentState |-> currentState, previousState |-> previousState,
       stateHistory |-> stateHistory, postTransitions |-> postTransitions,
       returned |-> "none", invoked |-> <<>>]

\* a callback runs: the event it is registered for (for a subscriber, with the
\* state of its key), the states it is passed, and what getCurrentState() returns
Invoke(m, event, key, to, from) ==
    [m EXCEPT !.invoked = Append(@, [event |-> event, key |-> key, to |-> to,
                                     from |-> from, current |-> m.currentState])]

executeTransitionCallbacks(m, event, from, to) ==
    Invoke(m, event, "none", to, from)

\* notifyListeners that serves the keys in the order from, state, stateChange
notifyListenersFromFirst(m, newState, prevState) ==
    Invoke(Invoke(Invoke(m, "from", prevState, newState, prevState),
                  "state", newState, newState, prevState),
           "stateChange", "none", newState, prevState)

\* events.forEach over ['stateChange', `state:${newState}`, `from:${previousState}`]
notifyListeners(m, newState, prevState) ==
    Invoke(Invoke(Invoke(m, "stateChange", "none", newState, prevState),
                  "state", newState, newState, prevState),
           "from", prevState, newState, prevState)

\* what setState does once it has accepted the transition
AcceptTransition(m, newState) ==
    LET m1 == executeTransitionCallbacks(m, "preTransition", m.currentState, newState)
        m2 == [m1 EXCEPT !.stateHistory = PushHistory(@, m.currentState),
                         !.previousState = m.currentState,
                         !.currentState = newState]
        m3 == notifyListeners(m2, newState, m2.previousState)
    \* the timer's closure holds newState; left is the state the transition
    \* left, kept beside it for comparison with what the callback is passed
    IN [m3 EXCEPT !.postTransitions =
                      Append(@, [to |-> newState, left |-> m.currentState]),
                  !.returned = "true"]

\* setState without the test for the current state
StateManagerSetStateAlways(m, newState) ==
    IF ~isValidState(newState) THEN [m EXCEPT !.returned = "false"]
    ELSE AcceptTransition(m, newState)

\* setState without the test for a valid state
StateManagerSetStateUnchecked(m, newState) ==
    IF m.currentState = newState THEN [m EXCEPT !.returned = "true"]
    ELSE AcceptTransition(m, newState)

\* StateManager.setState, with what it returns and invokes
StateManagerSetState(m, newState) ==
    IF ~isValidState(newState) THEN [m EXCEPT !.returned = "false"]
    ELSE IF m.currentState = newState THEN [m EXCEPT !.returned = "true"]
    ELSE AcceptTransition(m, newState)

Reverse(h) == [k \in 1..Len(h) |-> h[Len(h) + 1 - k]]

\* getStateDuration: this.stateHistory.reverse() reverses the array in place
getStateDuration(m) ==
    [m EXCEPT !.stateHistory = Reverse(@), !.returned = "duration"]

----------------------------------------------------------------------------
(* Speech synthesis *)

FreeUtterances(s) == {u \in Utterances : s.utterances[u] = "free"}

NextUtterance(s) ==
    IF FreeUtterances(s) = {} THEN 0
    ELSE CHOOSE u \in FreeUtterances(s) : \A v \in FreeUtterances(s) : u <= v

\* speechSynthesis.cancel(): what is queued or spoken stops; its end or error
\* event is delivered later
SynthesisCancel(s) ==
    [s EXCEPT !.utterances =
        [u \in Utterances |-> IF @[u] = "playing" THEN "cancelled" ELSE @[u]]]

\* speak(text) up to the return of its promise; the utterance is NextUtterance(s)
speak(s) ==
    LET u == NextUtterance(s)
    IN IF u = 0 THEN [s EXCEPT !.overflow = TRUE]
       ELSE LET s1 == SynthesisCancel([s EXCEPT !.currentSpeechResolve = u])
            IN [s1 EXCEPT !.utterances[u] = "playing"]

----------------------------------------------------------------------------
(* Recognition supervisor *)

\* try { this.recognition.start() } catch: 'already started' sets isListening
RecognitionStartCall(s) ==
    IF s.recognition = "inactive"
    THEN [s EXCEPT !.recognition = "starting"]
    ELSE [s EXCEPT !.isListening = TRUE]

\* what follows "await this.startWakeWordDetection()" in the caller k: a dispatch,
\* 0 for a caller that does nothing more, -1 for interruptSpeaking
AfterStart(s, k) ==
    IF k = 0 THEN s
    ELSE IF k = -1 THEN startConversationTimeout(s)
    ELSE [startConversationTimeout(s) EXCEPT !.isSpeaking = FALSE,
                                             !.dispatch[k] = FreeDispatch]

\* startWebSpeechDetection / startLocalDetection after requestMicrophonePermission
AfterPermission(s, local, granted, k) ==
    IF ~granted THEN AfterStart(s, k)
    ELSE IF local
    THEN AfterStart([s EXCEPT !.isListening = TRUE, !.localMonitors = @ + 1], k)
    ELSE AfterStart(RecognitionStartCall(s), k)

\* suspend the caller k on getUserMedia
WaitPermission(s, local, k) ==
    IF k = 0 THEN AddWait(s, IF local THEN "permLocalNone" ELSE "permWebNone")
    ELSE IF k = -1 THEN AddWait(s, IF local THEN "permLocalIntr" ELSE "permWebIntr")
    ELSE [s EXCEPT !.dispatch[k].pc = "perm", !.dispatch[k].local = local]

startWakeWordDetection(s, k) ==
    IF s.isPaused \/ s.isListening \/ s.isRestarting THEN AfterStart(s, k)
    ELSE IF s.audioStream
    THEN AfterPermission(s, s.useLocalDetection, TRUE, k)
    ELSE WaitPermission(s, s.useLocalDetection, k)

onRecognitionStart(s) ==
    [s EXCEPT !.isListening = TRUE, !.isRestarting = FALSE, !.consecutiveErrors = 0]

\* onRecognitionEnd that only clears the flag
onRecognitionEndWithoutRestart(s) ==
    [s EXCEPT !.isListening = FALSE]

onRecognitionEnd(s) ==
    LET s1 == [s EXCEPT !.isListening = FALSE]
    IN IF s1.currentState = "speaking" \/ s1.isSpeaking THEN scheduleRestart(s1)
       ELSE IF s1.isPaused \/ s1.useLocalDetection THEN s1
       ELSE IF s1.currentState \notin {"error", "thinking"} THEN scheduleRestart(s1)
       ELSE s1

ErrorTypes == {"network", "no-speech", "aborted", "audio-capture"}

onRecognitionError(s, errorType) ==
    IF s.currentState \in {"thinking", "speaking"} THEN s
    ELSE IF errorType = "aborted" THEN s
    ELSE LET s1 == [s EXCEPT !.consecutiveErrors = @ + 1]
         IN IF errorType = "network" /\ s1.consecutiveErrors >= NetworkErrorThreshold
            THEN [s1 EXCEPT !.useLocalDetection = TRUE]
            ELSE IF errorType = "no-speech"
            THEN scheduleRestart([s1 EXCEPT !.consecutiveErrors = 0])
            ELSE scheduleRestart(s1)

stopWakeWordDetection(s) ==
    LET s1 == [s EXCEPT !.isPaused = TRUE, !.obs.userPaused = TRUE]
        s2 == IF s1.isListening /\ s1.recognition \in {"starting", "active"}
              THEN [s1 EXCEPT !.recognition = "stopping"]
              ELSE s1
    IN [s2 EXCEPT !.isListening = FALSE]

resumeWakeWordDetection(s) ==
    LET s1 == [s EXCEPT !.isPaused = FALSE, !.obs.userPaused = FALSE]
    IN IF ~s1.useLocalDetection THEN startWakeWordDetection(s1, 0) ELSE s1

\* forceRestartRecognition up to its delay(100)
ForceRestartBegin(s) ==
    [CancelPendingRestart(s) EXCEPT !.isListening = FALSE, !.isRestarting = FALSE]

----------------------------------------------------------------------------
(* Command dispatch: onCommandReceived, processCommand, speak *)

FreeDispatches(s) == {i \in Dispatches : s.dispatch[i].pc = "free"}

\* onCommandReceived that takes its catch branch where it would speak the reply
GotResponseIntoError(s, i, action) ==
    [setState([s EXCEPT !.isSpeaking = FALSE], "error")
        EXCEPT !.dispatch[i] = FreeDispatch]

\* onCommandReceived from "this.isSpeaking = true" to "await this.speak(...)"
GotResponse(s, i, action) ==
    LET s1 == setState([s EXCEPT !.isSpeaking = TRUE], "speaking")
        u == NextUtterance(s1)
    IN [speak(s1) EXCEPT !.dispatch[i] =
            [FreeDispatch EXCEPT !.pc = "speak", !.utt = u, !.action = action]]

\* onCommandReceived after "await this.speak(...)" up to delay(200)
AfterSpeak(s, i) ==
    IF s.isSpeaking
    THEN [setState([s EXCEPT !.isSpeaking = FALSE], "listening")
              EXCEPT !.dispatch[i] = [FreeDispatch EXCEPT !.pc = "ttsDelay"]]
    ELSE [s EXCEPT !.isSpeaking = FALSE, !.dispatch[i] = FreeDispatch]

\* handleLateResponse up to "await this.speak(...)"
handleLateResponse(s) ==
    LET s1 == [s EXCEPT !.isSpeaking = TRUE]
        u == NextUtterance(s1)
    IN [speak(s1) EXCEPT !.lateSpeaks = @ \cup {u}]

\* handleLateResponse after "await this.speak(...)"
AfterLateSpeak(s, u) ==
    LET s1 == [s EXCEPT !.isSpeaking = FALSE, !.lateSpeaks = @ \ {u}]
    IN IF s1.isInConversation
       THEN startConversationTimeout(setState(s1, "listening"))
       ELSE setState(s1, "idle")

\* the promise of utterance u resolves: whoever awaits it continues
ResolveSpeak(s, u) ==
    LET awaiting == {i \in Dispatches :
                        s.dispatch[i].pc = "speak" /\ s.dispatch[i].utt = u}
    IN IF awaiting # {} THEN AfterSpeak(s, CHOOSE i \in awaiting : TRUE)
       ELSE IF u \in s.lateSpeaks THEN AfterLateSpeak(s, u)
       ELSE s

\* a request record can be used again once its closure is unreachable
Referenced(s, r) ==
    \/ r \in {s.onResponse, s.onError, s.onToolStart}
    \/ \E q \in Requests :
          /\ s.requests[q].st # "free"
          /\ r \in {s.requests[q].origResponse, s.requests[q].origError,
                    s.requests[q].origToolStart}

Collect(s) ==
    [s EXCEPT !.requests =
        [r \in Requests |->
            IF @[r].st = "resolved" /\ ~@[r].backend /\ ~Referenced(s, r)
            THEN FreeRequest ELSE @[r]],
              !.obs.wake = {i \in @ : s.dispatch[i].pc # "free"}]

\* cleanup() of the processCommand closure of request r
Cleanup(s, r) ==
    [s EXCEPT !.requests[r].timer = "none",
              !.onResponse = s.requests[r].origResponse,
              !.onError = s.requests[r].origError,
              !.onToolStart = s.requests[r].origToolStart]

\* isResolved = true; cleanup(); and the promise is left unresolved
ResolveRequestWithoutResolve(s, r, action) ==
    Cleanup([s EXCEPT !.requests[r].st = "resolved"], r)

\* isResolved = true; cleanup(); resolve(...): the dispatch that awaits continues
ResolveRequest(s, r, action) ==
    LET s1 == Cleanup([s EXCEPT !.requests[r].st = "resolved"], r)
    IN GotResponse(s1, s1.requests[r].disp, action)

\* the onResponse handler installed at the moment a text.response arrives
InvokeOnResponse(s) ==
    LET h == s.onResponse
    IN IF h = 0 THEN s
       ELSE IF s.requests[h].st = "resolved" THEN handleLateResponse(s)
       ELSE ResolveRequest(s, h, "api_response")

InvokeOnError(s) ==
    LET h == s.onError
    IN IF h = 0 THEN s
       ELSE IF s.requests[h].st = "resolved" THEN s
       ELSE ResolveRequest(s, h, "local")

\* the onToolStart closure of request h calls the handler it saved, then
\* replaces its own deadline
RECURSIVE InvokeOnToolStart(_, _)
InvokeOnToolStart(s, h) ==
    IF h = 0 THEN s
    ELSE LET s1 == InvokeOnToolStart([s EXCEPT !.requests[h].toolInProgress = TRUE],
                                     s.requests[h].origToolStart)
         IN IF s1.requests[h].timer # "none" /\ s1.requests[h].st # "resolved"
            THEN [s1 EXCEPT !.requests[h].timer = "extended"]
            ELSE s1

FreeRequests(s) == {r \in Requests : s.requests[r].st = "free"}

processCommand(s, i) ==
    IF s.lunaAPI = "present"
    THEN IF s.isConnected
         THEN IF FreeRequests(s) = {} THEN [s EXCEPT !.overflow = TRUE]
              ELSE LET r == CHOOSE q \in FreeRequests(s) :
                                \A q2 \in FreeRequests(s) : q <= q2
                   IN [s EXCEPT
                         !.requests[r] =
                             [FreeRequest EXCEPT
                                 !.st = "pending", !.timer = "initial",
                                 !.origResponse = s.onResponse,
                                 !.origError = s.onError,
                                 !.origToolStart = s.onToolStart,
                                 !.disp = i,
                                 \* sendMessage: over the socket, or by REST with
                                 \* the answer of the fetch dropped
                                 !.backend = s.useWebSocket],
                         !.onResponse = r, !.onError = r, !.onToolStart = r,
                         !.dispatch[i] = [FreeDispatch EXCEPT !.pc = "ws", !.req = r]]
         ELSE [s EXCEPT !.dispatch[i] = [FreeDispatch EXCEPT !.pc = "rest"]]
    ELSE GotResponse(s, i, "local")

onCommandReceived(s) ==
    IF FreeDispatches(s) = {} THEN [s EXCEPT !.overflow = TRUE]
    ELSE LET i == CHOOSE j \in FreeDispatches(s) : \A k \in FreeDispatches(s) : j <= k
             s1 == clearConversationTimeout(clearListeningTimeout(s))
             s2 == setState([s1 EXCEPT !.isInConversation = TRUE], "thinking")
         IN processCommand(s2, i)

----------------------------------------------------------------------------
(* Wake word, interruption, transcripts *)

onWakeWordDetected(s, transcript) ==
    LET s1 == setState(s, "waking")
        command == extractCommandFromTranscript(transcript)
    IN IF Len(command) > MinCommandLength THEN AddWait(s1, "wakeCmd")
       ELSE AddWait(s1, "wakeListen")

\* interruptSpeaking up to its delay(300); the continuation of the speak
\* promise it resolves runs when the calling task has returned
interruptSpeaking(s) ==
    LET s1 == [SynthesisCancel(s) EXCEPT !.isSpeaking = FALSE]
        u == s1.currentSpeechResolve
        s2 == setState([s1 EXCEPT !.currentSpeechResolve = 0], "listening")
        s3 == AddWait(s2, "intrDelay")
    IN IF u # 0 THEN ResolveSpeak(s3, u) ELSE s3

\* interruptSpeaking after delay(300)
InterruptResume(s) ==
    LET s1 == [CancelPendingRestart(s) EXCEPT !.isListening = FALSE,
                                              !.isRestarting = FALSE,
                                              !.isPaused = FALSE]
    IN IF ~s1.useLocalDetection THEN startWakeWordDetection(s1, -1)
       ELSE startConversationTimeout(s1)

onInterimResult(s, transcript) ==
    IF s.isInConversation /\ Len(transcript) > 3
    THEN clearConversationTimeout(s) ELSE s

\* transcript is the recognized text, lower-cased and trimmed
handleRecognitionResult(s, transcript, isFinal) ==
    IF s.currentState = "speaking" \/ s.isSpeaking
    THEN IF ~isFinal THEN s
         ELSE IF detectWakeWord(transcript)
         THEN LET s1 == interruptSpeaking(s)
                  command == extractCommandFromTranscript(transcript)
              IN IF Len(command) > MinCommandLength THEN AddWait(s1, "intrCmd")
                 ELSE AddWait(s1, "intrListen")
         ELSE s
    ELSE IF ~isFinal THEN onInterimResult(s, transcript)
    ELSE LET s1 == IF Len(transcript) > 0 THEN [s EXCEPT !.consecutiveErrors = 0]
                   ELSE s
         IN IF s1.currentState = "idle" /\ ~s1.isInConversation
            THEN IF detectWakeWord(transcript)
                 THEN onWakeWordDetected(s1, transcript) ELSE s1
            ELSE IF s1.currentState = "waking"
            THEN IF detectWakeWord(transcript)
                 THEN onWakeWordDetected(s1, transcript) ELSE s1
            ELSE IF s1.currentState = "listening" /\ Len(transcript) > 0
            THEN LET s2 == clearConversationTimeout(s1)
                 IN IF detectWakeWord(transcript)
                    THEN IF Len(extractCommandFromTranscript(transcript))
                                > MinCommandLength
                         THEN onCommandReceived(s2)
                         ELSE IF s2.isInConversation
                         THEN startConversationTimeout(s2) ELSE s2
                    ELSE onCommandReceived(s2)
            ELSE s1

\* UIController.toggleMicrophone
toggleMicrophone(s) ==
    IF s.currentState = "speaking" \/ s.isSpeaking THEN interruptSpeaking(s)
    ELSE IF s.isPaused \/ ~s.isListening THEN resumeWakeWordDetection(s)
    ELSE stopWakeWordDetection(s)

----------------------------------------------------------------------------
(* The initial state: the page has constructed StateManager, VoiceManager and,
   when a backend is configured, LunaAPIClient; nothing has been started. *)

Transcripts ==
    {<<"h","e","y"," ","l","u","n","a">>,
     <<"l","u","d","a">>,
     <<"h","e","y"," ","l","u","n","a"," ","o","k">>,
     <<"h","e","y"," ","l","u","n","a"," ","p","l","a","y">>,
     <<"p","l","a","y">>}

\* a wake phrase alone, or followed by at most MinCommandLength characters
WakeOnly ==
    {t \in Transcripts :
        detectWakeWord(t) /\ Len(extractCommandFromTranscript(t)) <= MinCommandLength}

\* The inputs of the environment a behaviour may take: any MaxEvents of them,
\* or one of the longer sequences below.
AnyInputs ==
    [boot |-> 1, events |-> MaxEvents, transcripts |-> MaxTranscripts,
     taps |-> MaxTaps, faults |-> MaxFaults, backend |-> MaxBackendEvents,
     frames |-> MaxFrames, connects |-> 1]

\* a command, and the mic button pressed twice
CommandAndTaps ==
    [boot |-> 1, events |-> MaxEvents + 1, transcripts |-> 1, taps |-> MaxTaps,
     faults |-> 0, backend |-> 0, frames |-> 0,
     connects |-> 0]

\* the local detector hears a command; then the button or the backend
LocalCommand ==
    [boot |-> 1, events |-> MaxEvents + 1, transcripts |-> 0, taps |-> 1,
     faults |-> 0, backend |-> 1, frames |-> MaxFrames,
     connects |-> 0]

\* the recognizer reports one error after another; then the button
RecognizerFaults ==
    [boot |-> 1, events |-> MaxFaults + 2, transcripts |-> 0, taps |-> 1,
     faults |-> MaxFaults + 1, backend |-> 0, frames |-> 1,
     connects |-> 0]

\* the backend changes the state while the recognizer ends on its own
BackendStates ==
    [boot |-> 1, events |-> MaxBackendEvents + 1, transcripts |-> 0, taps |-> 0,
     faults |-> 1, backend |-> MaxBackendEvents, frames |-> 0,
     connects |-> 0]

\* a page that reaches its backend over REST: the user speaks one more time
\* than AnyInputs allows, and does nothing else
Utterings ==
    [boot |-> 1, events |-> MaxTranscripts + 1, transcripts |-> MaxTranscripts + 1,
     taps |-> 0, faults |-> 0, backend |-> 0, frames |-> 0,
     connects |-> 0]

\* the user speaks, uses the settings panel, and the backend reports a state
SettingsPanel ==
    [boot |-> 1, events |-> MaxEvents + 1, transcripts |-> 1, taps |-> 0,
     faults |-> 0, backend |-> 1, frames |-> 0, connects |-> 1]

Budgets ==
    {AnyInputs, CommandAndTaps, LocalCommand, RecognizerFaults, BackendStates,
     SettingsPanel}

\* userPaused: stopWakeWordDetection was called and resumeWakeWordDetection was
\* not called since; superseded: scheduleRestart found a timer pending
\* wake: the dispatches in progress that the timer of onWakeWordDetected began
\* networkRuns: the last so many errors of the recognizer were network errors,
\* each reported after the start event of its run, unpaused, in Idle or Listening
\* wakeAlone: the last result of the recognizer was a final transcript of WakeOnly,
\* taken in Listening while nothing was spoken
\* skipped: the last callback of scheduleRestart found the mic paused or the
\* supervisor listening
Obs0 == [userPaused |-> FALSE, superseded |-> FALSE, wake |-> {}, networkRuns |-> 0,
         wakeAlone |-> FALSE, skipped |-> FALSE]

\* the socket fields of a LunaAPIClient just constructed. ws: the socket
\* this.ws, 0 for null; sockets: the readyState of every WebSocket created, in
\* order of creation; sent: what was given to send(), and on which socket;
\* reconnectTimers: armed timers of attemptReconnect; passed: the messages
\* sendWsMessage was called with so far; endless: processMessageQueue is in a
\* loop that does not end
NewClient ==
    [ws |-> 0, sockets |-> <<>>, messageQueue |-> <<>>, sent |-> <<>>,
     isConnected |-> FALSE, reconnectAttempts |-> 0, reconnectTimers |-> 0,
     passed |-> 0, endless |-> FALSE]

\* constructor of LunaAPIClient: "this.threadId = this.generateThreadId()"
ClientInit ==
    /\ threadId = 1
    /\ outbound = <<>>
    /\ client = NewClient

\* extractCommandFromTranscript is not called
NoExtraction == [wakePhrase |-> <<>>, cmd |-> <<>>, called |-> FALSE, returned |-> <<>>]

\* no call of setState was made
\* no post-transition callback has run
NoPost == [to |-> "none", from |-> "none", left |-> "none"]

NoCall == [returned |-> "none", invoked |-> <<>>, calls |-> 0, arg |-> "none",
           post |-> NoPost]

\* the VoiceManager and the LunaAPIClient after construction
ComponentsInit(b) ==
    /\ isListening = FALSE
    /\ isRestarting = FALSE
    /\ isPaused = FALSE
    /\ isSpeaking = FALSE
    /\ isInConversation = FALSE
    \* init(): without a SpeechRecognition constructor the local detector is set up
    /\ useLocalDetection \in BOOLEAN
    /\ consecutiveErrors = 0
    /\ pendingRestart = FALSE
    /\ restartTimers = 0
    /\ listeningTimeout = "null"
    /\ listeningTimers = 0
    /\ conversationTimeout = "null"
    /\ conversationTimers = 0
    /\ recognition = "inactive"
    /\ audioStream = FALSE
    /\ utterances = [u \in Utterances |-> "free"]
    /\ currentSpeechResolve = 0
    /\ waits = [k \in WaitKinds |-> 0]
    /\ dispatch = [i \in Dispatches |-> FreeDispatch]
    /\ localMonitors = 0
    /\ speechDetector = [isSpeaking |-> FALSE, silence |-> "few"]
    /\ lunaAPI \in {"absent", "present"}
    /\ isConnected \in IF lunaAPI = "present" THEN BOOLEAN ELSE {FALSE}
    /\ useWebSocket \in IF lunaAPI = "present" THEN BOOLEAN ELSE {TRUE}
    /\ onResponse = 0
    /\ onError = 0
    /\ onToolStart = 0
    /\ requests = [r \in Requests |-> FreeRequest]
    /\ onStateChange = "app"
    /\ lateSpeaks = {}
    /\ budget = b
    /\ obs = Obs0

InitWith(b) ==
    /\ currentState = "idle"
    /\ previousState = "none"
    /\ stateHistory = <<>>
    /\ postTransitions = <<>>
    /\ lastCall = NoCall
    /\ extraction = NoExtraction
    /\ ClientInit
    /\ ComponentsInit(b)

Init ==
    \/ \E b \in Budgets : InitWith(b)
    \/ /\ InitWith(Utterings)
       /\ lunaAPI = "present" /\ ~isConnected /\ ~useWebSocket

Step(s) == Commit(Collect(s))

----------------------------------------------------------------------------
(* Page and user *)

\* LunaEyeApp.start: setState('idle'), startWakeWordDetection
AppStart ==
    /\ budget.boot > 0
    /\ Step(startWakeWordDetection(
                setState([S EXCEPT !.budget.boot = 0], "idle"), 0))

\* the mic button
MicTap ==
    /\ budget.boot = 0
    /\ Can("taps")
    /\ Step(toggleMicrophone(Spend(S, "taps")))

----------------------------------------------------------------------------
(* The browser's recognizer *)

RecognitionStarted ==
    /\ recognition = "starting"
    /\ Step(onRecognitionStart([S EXCEPT !.recognition = "active"]))

\* the session ends: after stop(), after an error, or on its own
RecognitionEnded ==
    /\ \/ recognition = "stopping"
       \/ recognition = "active" /\ Can("faults")
    /\ LET s == IF recognition = "active" THEN Spend(S, "faults") ELSE S
       IN Step(onRecognitionEnd([s EXCEPT !.recognition = "inactive"]))

\* an error event; the end event follows
RecognitionFault ==
    /\ recognition \in {"starting", "active"}
    /\ Can("faults")
    /\ \E e \in ErrorTypes :
          Step(onRecognitionError(
                   [Spend(S, "faults") EXCEPT
                       !.recognition = "stopping",
                       !.obs.networkRuns =
                           IF /\ e = "network" /\ recognition = "active"
                              /\ ~isPaused /\ currentState \in {"idle", "listening"}
                           THEN @ + 1 ELSE 0], e))

\* the result event with transcript t is taken
Heard(s, t, isFinal) ==
    [Spend(s, "transcripts") EXCEPT
        !.obs.wakeAlone = /\ isFinal /\ t \in WakeOnly
                          /\ s.currentState = "listening" /\ ~s.isSpeaking]

RecognitionResult ==
    /\ recognition \in {"active", "stopping"}
    /\ Can("transcripts")
    /\ \E t \in Transcripts, isFinal \in BOOLEAN :
          Step(handleRecognitionResult(Heard(S, t, isFinal), t, isFinal))

\* getUserMedia settles for a caller that carries no dispatch
PermissionSettled ==
    \E k \in {"permWebNone", "permWebIntr", "permLocalNone", "permLocalIntr"},
       granted \in BOOLEAN :
        /\ waits[k] > 0
        /\ ~granted => Can("faults")
        /\ LET s0 == IF granted THEN [S EXCEPT !.audioStream = TRUE]
                     ELSE Spend(S, "faults")
           IN Step(AfterPermission(DelWait(s0, k),
                                   k \in {"permLocalNone", "permLocalIntr"},
                                   granted,
                                   IF k \in {"permWebNone", "permLocalNone"}
                                   THEN 0 ELSE -1))

----------------------------------------------------------------------------
(* Timers and delays of the VoiceManager *)

\* the callback that does not look at the flags and starts the detection itself
RestartTimerFiresUnchecked ==
    /\ restartTimers > 0
    /\ LET s == [S EXCEPT !.restartTimers = @ - 1, !.pendingRestart = FALSE,
                          !.isRestarting = FALSE,
                          !.obs.skipped = isPaused \/ isListening]
       IN Step(IF s.audioStream
               THEN AfterPermission(s, s.useLocalDetection, TRUE, 0)
               ELSE WaitPermission(s, s.useLocalDetection, 0))

\* the callback scheduleRestart armed
RestartTimerFires ==
    /\ restartTimers > 0
    /\ LET s == [S EXCEPT !.restartTimers = @ - 1, !.pendingRestart = FALSE,
                          !.isRestarting = FALSE,
                          !.obs.skipped = isPaused \/ isListening]
       IN Step(IF s.isPaused \/ s.isListening THEN s
               ELSE startWakeWordDetection(s, 0))

\* the callback of the listening timeout that does not look at the state
ListeningTimeoutFiresInAnyState ==
    /\ listeningTimers > 0
    /\ LET s == [S EXCEPT !.listeningTimers = @ - 1, !.listeningTimeout = "stale"]
       IN Step(setState(speak(s), "idle"))

ListeningTimeoutFires ==
    /\ listeningTimers > 0
    /\ LET s == [S EXCEPT !.listeningTimers = @ - 1, !.listeningTimeout = "stale"]
       IN Step(IF s.currentState = "listening" THEN setState(speak(s), "idle")
               ELSE s)

ConversationTimeoutFires ==
    /\ conversationTimers > 0
    /\ LET s == [S EXCEPT !.conversationTimers = @ - 1,
                          !.conversationTimeout = "stale"]
       IN Step(IF s.currentState = "listening" /\ s.isInConversation
               THEN LET s1 == [s EXCEPT !.isInConversation = FALSE]
                        s2 == IF ~s1.isListening /\ ~s1.isRestarting
                                 /\ ~s1.useLocalDetection
                              THEN scheduleRestart(s1) ELSE s1
                    IN AddWait(s2, "convDelay")
               ELSE s)

\* conversation-timeout callback after delay(50)
ConvDelayFires ==
    /\ waits["convDelay"] > 0
    /\ Step(setState(DelWait(S, "convDelay"), "idle"))

\* state-change listener after delay(150)
SyncDelayFires ==
    /\ waits["syncDelay"] > 0
    /\ LET s == DelWait(S, "syncDelay")
       IN Step(IF ~s.isListening /\ ~s.isRestarting /\ ~s.isPaused
                  /\ ~s.useLocalDetection
               THEN AddWait(ForceRestartBegin(s), "forceDelay")
               ELSE s)

\* forceRestartRecognition('state-sync-listening') after delay(100)
ForceDelayFires ==
    /\ waits["forceDelay"] > 0
    /\ Step(startWakeWordDetection(DelWait(S, "forceDelay"), 0))

IntrDelayFires ==
    /\ waits["intrDelay"] > 0
    /\ Step(InterruptResume(DelWait(S, "intrDelay")))

WakeCmdFires ==
    /\ waits["wakeCmd"] > 0
    /\ LET s == DelWait(S, "wakeCmd")
       IN Step([onCommandReceived(s) EXCEPT
                   !.obs.wake = @ \cup {i \in FreeDispatches(s) :
                                           \A k \in FreeDispatches(s) : i <= k}])

WakeListenFires ==
    /\ waits["wakeListen"] > 0
    /\ Step(startListeningTimeout(setState(DelWait(S, "wakeListen"), "listening")))

IntrCmdFires ==
    /\ waits["intrCmd"] > 0
    /\ Step(onCommandReceived(DelWait(S, "intrCmd")))

IntrListenFires ==
    /\ waits["intrListen"] > 0
    /\ Step(startListeningTimeout(setState(DelWait(S, "intrListen"), "listening")))

\* onCommandReceived after delay(200)
TtsDelayFires ==
    \E i \in Dispatches :
        /\ dispatch[i].pc = "ttsDelay"
        /\ Step(IF ~isListening /\ ~isRestarting /\ ~useLocalDetection
                THEN [ForceRestartBegin(S) EXCEPT !.dispatch[i].pc = "forceDelay"]
                ELSE AfterStart(S, i))

\* forceRestartRecognition('post-tts-conversation') after delay(100)
DispatchForceDelayFires ==
    \E i \in Dispatches :
        /\ dispatch[i].pc = "forceDelay"
        /\ Step(startWakeWordDetection(S, i))

----------------------------------------------------------------------------
(* speechSynthesis *)

\* onend / onerror of utterance u, after it played or after it was cancelled
UtteranceEventFor(u) ==
    /\ utterances[u] \in {"playing", "cancelled"}
    /\ Step(ResolveSpeak([S EXCEPT !.utterances[u] = "free",
                                   !.currentSpeechResolve = 0], u))

UtteranceEvent == \E u \in Utterances : UtteranceEventFor(u)

----------------------------------------------------------------------------
(* The backend *)

\* ws.onopen after connect() or after attemptReconnect()
WsOpen ==
    /\ lunaAPI = "present"
    /\ ~isConnected
    /\ Can("backend")
    /\ Step([Spend(S, "backend") EXCEPT !.isConnected = TRUE])

\* ws.onclose; what was sent on this socket is not answered any more
WsClose ==
    /\ isConnected
    /\ Can("backend")
    /\ Step([Spend(S, "backend") EXCEPT
                !.isConnected = FALSE,
                !.requests = [r \in Requests |-> [@[r] EXCEPT !.backend = FALSE]]])

\* a text.response message for request r
BackendResponseFor(r) ==
    /\ isConnected
    /\ requests[r].backend
    /\ Step(InvokeOnResponse([S EXCEPT !.requests[r].backend = FALSE]))

BackendResponse == \E r \in Requests : BackendResponseFor(r)

\* a tool.start message while the backend works on request r
BackendToolStartFor(r) ==
    /\ isConnected
    /\ requests[r].backend
    /\ Can("backend")
    /\ Step(InvokeOnToolStart(Spend(S, "backend"), onToolStart))

BackendToolStart == \E r \in Requests : BackendToolStartFor(r)

\* an error message
BackendError ==
    /\ isConnected
    /\ Can("backend")
    /\ Step(InvokeOnError(Spend(S, "backend")))

\* UIController.connectToApi: the Connect button of the settings panel, with
\* the WebSocket toggle as the user left it. With the toggle on, connect()
\* answers true at once when the socket is open, or when its socket opens, and
\* the panel then installs its own onStateChange; with the toggle off the REST
\* status is fetched and no handler is touched.
ConnectToApi ==
    /\ lunaAPI = "present"
    /\ budget.boot = 0
    /\ Can("connects")
    /\ \E useWs \in BOOLEAN, opens \in BOOLEAN :
          LET s == [Spend(S, "connects") EXCEPT !.useWebSocket = useWs]
          IN Step(IF useWs /\ (s.isConnected \/ opens)
                  THEN [s EXCEPT !.isConnected = TRUE, !.onStateChange = "ui"]
                  ELSE s)

\* the onStateChange handler the panel installs: setState and nothing else
stateChangeFromPanel(s, state) == setState(s, state)

\* the onStateChange handler initApiConnection installs
stateChangeFromApp(s, state) ==
    IF s.isSpeaking THEN s
    ELSE IF state = "idle" /\ s.isInConversation THEN s
    ELSE setState(s, state)

\* a state.change message with this state, given to LunaAPI.onStateChange
BackendStateChangeTo(state) ==
    /\ isConnected
    /\ Can("backend")
    /\ LET s == Spend(S, "backend")
       IN Step(IF s.onStateChange = "ui" THEN stateChangeFromPanel(s, state)
               ELSE stateChangeFromApp(s, state))

BackendStateChange == \E state \in States : BackendStateChangeTo(state)

\* the 15 s or the 60 s deadline of request r
RequestTimeout ==
    \E r \in Requests :
        /\ requests[r].timer # "none"
        /\ LET q == requests[r]
           IN Step(IF q.timer = "initial"
                   THEN IF q.st # "resolved" /\ ~q.toolInProgress
                        THEN ResolveRequest([S EXCEPT !.requests[r].timedOut = TRUE],
                                            r, "local")
                        ELSE [S EXCEPT !.requests[r].timer = "none"]
                   ELSE IF q.st # "resolved"
                        THEN ResolveRequest([S EXCEPT !.requests[r].timedOut = TRUE],
                                            r, "local")
                        ELSE [S EXCEPT !.requests[r].timer = "none"])

\* the fetch of sendMessageRest settles
RestSettles ==
    \E i \in Dispatches, ok \in BOOLEAN :
        /\ dispatch[i].pc = "rest"
        /\ Step(GotResponse(S, i, IF ok THEN "api_response" ELSE "local"))

----------------------------------------------------------------------------
(* The local detector *)

onLocalCommandDetected(s) ==
    AddWait(onWakeWordDetected(s, <<"v","o","i","c","e"," ","d","e","t","e","c","t","e","d">>),
            "localCmd")

LocalCmdFires ==
    /\ waits["localCmd"] > 0
    /\ Step(onCommandReceived(DelWait(S, "localCmd")))

\* speechDetector.process(volume): loud is volume > 0.1, likely is a speech
\* duration between 500 and 5000 ms, long is more than 30 silent frames
process(s, loud, likely, long) ==
    LET d == s.speechDetector
        s1 == IF loud /\ ~d.isSpeaking
              THEN LET s0 == [s EXCEPT !.speechDetector =
                                  [isSpeaking |-> TRUE, silence |-> "few"]]
                   IN IF s0.currentState = "idle" THEN setState(s0, "waking") ELSE s0
              ELSE IF ~loud /\ d.isSpeaking
              THEN LET s0 == [s EXCEPT !.speechDetector.isSpeaking = FALSE]
                   IN IF likely THEN onLocalCommandDetected(s0) ELSE s0
              ELSE IF loud THEN s
              ELSE [s EXCEPT !.speechDetector.silence =
                                 IF long THEN "over" ELSE @]
    IN IF s1.speechDetector.silence = "over" /\ s1.currentState # "idle"
       THEN setState(s1, "idle") ELSE s1

\* one animation frame of one monitorAudio loop
MonitorFrame ==
    /\ localMonitors > 0
    /\ IF ~isListening THEN Step([S EXCEPT !.localMonitors = @ - 1])
       ELSE /\ Can("frames")
            /\ \E loud, likely, long \in BOOLEAN :
                  Step(process(Spend(S, "frames"), loud, likely, long))

----------------------------------------------------------------------------

Next ==
    \/ AppStart
    \/ MicTap
    \/ RecognitionStarted
    \/ RecognitionEnded
    \/ RecognitionFault
    \/ RecognitionResult
    \/ PermissionSettled
    \/ RestartTimerFires
    \/ ListeningTimeoutFires
    \/ ConversationTimeoutFires
    \/ ConvDelayFires
    \/ SyncDelayFires
    \/ ForceDelayFires
    \/ IntrDelayFires
    \/ WakeCmdFires
    \/ WakeListenFires
    \/ IntrCmdFires
    \/ IntrListenFires
    \/ TtsDelayFires
    \/ DispatchForceDelayFires
    \/ UtteranceEvent
    \/ WsOpen
    \/ WsClose
    \/ BackendResponse
    \/ BackendToolStart
    \/ BackendError
    \/ BackendStateChange
    \/ ConnectToApi
    \/ RequestTimeout
    \/ RestSettles
    \/ LocalCmdFires
    \/ MonitorFrame

Spec == Init /\ [][Next]_vars

\* What a reply depends on: the deadline of a request fires, the fetch of the
\* REST call settles, and the synthesizer reports end or error for every
\* utterance. The user, the microphone and the backend are under no obligation.
Fairness ==
    /\ WF_vars(RequestTimeout)
    /\ WF_vars(RestSettles)
    /\ WF_vars(UtteranceEvent)

\* the behaviours of the page that takes any MaxEvents inputs, under Fairness
FairSpec == InitWith(AnyInputs) /\ [][Next]_vars /\ Fairness

----------------------------------------------------------------------------
(* The StateManager on its own: any caller, any argument *)

componentVars ==
    <<isListening, isRestarting, isPaused, isSpeaking, isInConversation,
      useLocalDetection, consecutiveErrors, pendingRestart, restartTimers,
      listeningTimeout, listeningTimers, conversationTimeout, conversationTimers,
      recognition, audioStream, utterances, currentSpeechResolve, waits, dispatch,
      localMonitors, speechDetector, lunaAPI, isConnected, useWebSocket,
      onResponse, onError, onToolStart, requests, onStateChange, lateSpeaks,
      budget, obs>>

\* the history after n transitions between Idle and Waking
TransitionsMade(n) ==
    [k \in 1..n |-> [state |-> IF k % 2 = 1 THEN "idle" ELSE "waking",
                     timestamp |-> k]]

\* the StateManager has made none, or nearly HistoryLimit, or HistoryLimit
\* transitions, and every post-transition timer has fired
HistoryLengths == {0, HistoryLimit - 1, HistoryLimit}

StateInit ==
    \E n \in HistoryLengths :
        /\ stateHistory = TransitionsMade(n)
        /\ currentState = IF n % 2 = 0 THEN "idle" ELSE "waking"
        /\ previousState = IF n = 0 THEN "none" ELSE TransitionsMade(n)[n].state
        /\ postTransitions = <<>>
        /\ lastCall = NoCall
        /\ extraction = NoExtraction
        /\ ClientInit
        /\ ComponentsInit(AnyInputs)

\* the call ends in m
Return(m, arg) ==
    /\ Len(m.postTransitions) <= MaxPostTransitions
    /\ currentState' = m.currentState
    /\ previousState' = m.previousState
    /\ stateHistory' = m.stateHistory
    /\ postTransitions' = m.postTransitions
    /\ lastCall' = [returned |-> m.returned, invoked |-> m.invoked,
                    calls |-> lastCall.calls + 1, arg |-> arg,
                    post |-> lastCall.post]
    /\ UNCHANGED <<componentVars, extraction, threadId, outbound, client>>

CallSetStateWith(x) ==
    /\ lastCall.calls < MaxCalls
    /\ Return(StateManagerSetState(SM, x), x)

CallSetState == \E x \in StateArguments : CallSetStateWith(x)

\* export() or getStateDuration() from the console
CallGetStateDuration ==
    /\ lastCall.calls < MaxCalls
    /\ Return(getStateDuration(SM), "none")

\* the post-transition timer k fires: executeTransitionCallbacks with
\* from: this.previousState, to: newState
PostTransitionFiresAt(k) ==
    /\ postTransitions' = [j \in 1..(Len(postTransitions) - 1) |->
                               IF j < k THEN postTransitions[j]
                               ELSE postTransitions[j + 1]]
    /\ lastCall' = [lastCall EXCEPT !.post = [to |-> postTransitions[k].to,
                                              from |-> previousState,
                                              left |-> postTransitions[k].left]]

\* one of the armed post-transition timers fires
PostTransitionFires ==
    /\ postTransitions # <<>>
    /\ \E k \in 1..Len(postTransitions) : PostTransitionFiresAt(k)
    /\ UNCHANGED <<currentState, previousState, stateHistory>>
    /\ UNCHANGED <<componentVars, extraction, threadId, outbound, client>>

StateNext == CallSetState \/ CallGetStateDuration \/ PostTransitionFires

StateSpec == StateInit /\ [][StateNext]_vars

----------------------------------------------------------------------------
(* LunaAPIClient on its own: the socket opens and closes, the server greets,
   and the page calls sendMessage, sendMessageRest and clearHistory.         *)

MaxSent == 3
MaxThreadIds == 3

\* the identifiers generateThreadId and the server can produce
ThreadIds == 1..MaxThreadIds

\* JSON.stringify of a message without the field thread_id
NoThreadId == 0

Send(message) ==
    /\ Len(outbound) < MaxSent
    /\ outbound' = Append(outbound, message)

ClientStep ==
    UNCHANGED <<currentState, previousState, stateHistory, postTransitions,
                lastCall, extraction, componentVars, client>>

\* sendMessageRest: POST /chat
sendMessageRest ==
    Send([via |-> "rest", type |-> "chat", thread_id |-> threadId])

\* sendWsMessage of { type: 'input.text', text } on the open socket
sendMessageWs ==
    Send([via |-> "ws", type |-> "input.text", thread_id |-> NoThreadId])

sendMessage ==
    IF useWebSocket /\ isConnected THEN sendMessageWs ELSE sendMessageRest

CallSendMessage == sendMessage /\ UNCHANGED threadId /\ ClientStep

CallSendMessageRest == sendMessageRest /\ UNCHANGED threadId /\ ClientStep

\* clearHistory: the clear message or POST /clear, then a new thread id
CallClearHistory ==
    /\ IF useWebSocket /\ isConnected
       THEN Send([via |-> "ws", type |-> "clear", thread_id |-> NoThreadId])
       ELSE Send([via |-> "rest", type |-> "clear", thread_id |-> threadId])
    /\ \E id \in ThreadIds \ {threadId} : threadId' = id
    /\ ClientStep

\* handleWsMessage, case 'hello': "if (message.thread_id) this.threadId = ..."
HelloMessage ==
    /\ isConnected
    /\ \E id \in ThreadIds \cup {NoThreadId} :
          threadId' = IF id # NoThreadId THEN id ELSE threadId
    /\ UNCHANGED outbound
    /\ ClientStep

ClientNext ==
    \/ WsOpen
    \/ WsClose
    \/ HelloMessage
    \/ CallSendMessage
    \/ CallSendMessageRest
    \/ CallClearHistory

ClientSpec == InitWith(AnyInputs) /\ [][ClientNext]_vars

----------------------------------------------------------------------------
(* The sockets of LunaAPIClient and its queue of messages: the page calls
   connect and sendWsMessage, sockets open and close, reconnect timers fire. *)

MaxSockets == 3
MaxQueued == 2
maxReconnectAttempts == 5

\* readyState === WebSocket.OPEN of this.ws
CurrentSocketOpen(c) == c.ws # 0 /\ c.sockets[c.ws] = "open"

\* connect(): nothing when the current socket is open, else a new WebSocket
\* becomes the current socket
connect(c) ==
    IF CurrentSocketOpen(c) THEN c
    ELSE [c EXCEPT !.sockets = Append(@, "connecting"),
                   !.ws = Len(c.sockets) + 1]

sendWsMessage(c, message) ==
    IF CurrentSocketOpen(c)
    THEN [c EXCEPT !.sent = Append(@, [message |-> message, socket |-> c.ws])]
    ELSE connect([c EXCEPT !.messageQueue = Append(@, message)])

\* the while loop of processMessageQueue, followed for n iterations
RECURSIVE QueueLoop(_, _)
QueueLoop(c, n) ==
    IF c.messageQueue = <<>> THEN c
    ELSE IF n = 0 THEN [c EXCEPT !.endless = TRUE]
    ELSE QueueLoop(sendWsMessage([c EXCEPT !.messageQueue = Tail(@)],
                                 Head(c.messageQueue)),
                   n - 1)

\* processMessageQueue. An iteration either sends the message it took, or puts
\* it back and leaves a connecting socket as the current one, and then so does
\* every later iteration: a queue that is not empty after one iteration more
\* than it held messages is never empty.
processMessageQueue(c) == QueueLoop(c, Len(c.messageQueue) + 1)

\* ws.onopen of socket k
onopen(c, k) ==
    processMessageQueue([c EXCEPT !.sockets[k] = "open", !.isConnected = TRUE,
                                  !.reconnectAttempts = 0])

attemptReconnect(c) ==
    IF c.reconnectAttempts >= maxReconnectAttempts THEN c
    ELSE [c EXCEPT !.reconnectAttempts = @ + 1, !.reconnectTimers = @ + 1]

\* ws.onclose of socket k
onclose(c, k) ==
    attemptReconnect([c EXCEPT !.sockets[k] = "closed", !.isConnected = FALSE])

QueueStep ==
    UNCHANGED <<currentState, previousState, stateHistory, postTransitions,
                lastCall, extraction, componentVars, threadId, outbound>>

\* the page is not stuck in a loop and may create one more socket
MayCall == ~client.endless /\ Len(client.sockets) < MaxSockets

\* initApiConnection, connectToApi or setApiUrl call connect()
CallConnect ==
    /\ MayCall
    /\ client' = connect(client)
    /\ QueueStep

\* the next message is passed to sendWsMessage
CallSendWsMessage ==
    /\ MayCall
    /\ client.passed < MaxQueued
    /\ client' = sendWsMessage([client EXCEPT !.passed = @ + 1], client.passed + 1)
    /\ QueueStep

\* the timer of attemptReconnect fires
ReconnectTimerFires ==
    /\ MayCall
    /\ client.reconnectTimers > 0
    /\ client' = connect([client EXCEPT !.reconnectTimers = @ - 1])
    /\ QueueStep

SocketOpensAt(k) ==
    /\ ~client.endless
    /\ client.sockets[k] = "connecting"
    /\ client' = onopen(client, k)
    /\ QueueStep

\* socket k fails to connect, or its connection ends
SocketClosesAt(k) ==
    /\ ~client.endless
    /\ client.sockets[k] \in {"connecting", "open"}
    /\ client' = onclose(client, k)
    /\ QueueStep

SocketOpens == \E k \in DOMAIN client.sockets : SocketOpensAt(k)

SocketCloses == \E k \in DOMAIN client.sockets : SocketClosesAt(k)

QueueNext ==
    \/ CallConnect
    \/ CallSendWsMessage
    \/ ReconnectTimerFires
    \/ SocketOpens
    \/ SocketCloses

QueueSpec == InitWith(AnyInputs) /\ [][QueueNext]_vars

----------------------------------------------------------------------------
(* extractCommandFromTranscript on its own: it is given a wake phrase, a space
   and a command text made of a few words, spaces and punctuation marks.     *)

MaxWords == 3

Words ==
    { <<"p","l","a","y">>, <<"P","l","a","y">>, <<" ">>, <<"?">>,
      <<"l","u","n","a">>, <<"h","e","y">>, <<"l","u","d","a">> }

RECURSIVE TextsOf(_)
TextsOf(n) ==
    IF n = 0 THEN {<<>>}
    ELSE TextsOf(n - 1) \cup {t \o w : t \in TextsOf(n - 1), w \in Words}

CommandTexts == TextsOf(MaxWords)

WakePhrases == {allWakeWords[k] : k \in 1..Len(allWakeWords)}

ExtractInit ==
    /\ currentState = "idle"
    /\ previousState = "none"
    /\ stateHistory = <<>>
    /\ postTransitions = <<>>
    /\ lastCall = NoCall
    /\ ClientInit
    /\ ComponentsInit(AnyInputs)
    /\ \E w \in WakePhrases, c \in CommandTexts :
          extraction = [wakePhrase |-> w, cmd |-> c, called |-> FALSE,
                        returned |-> <<>>]

CallExtractCommand ==
    /\ ~extraction.called
    /\ extraction' =
          [extraction EXCEPT !.called = TRUE,
                             !.returned = extractCommandFromTranscript(
                                              extraction.wakePhrase \o <<" ">>
                                                  \o extraction.cmd)]
    /\ UNCHANGED <<currentState, previousState, stateHistory, postTransitions,
                   lastCall, componentVars, threadId, outbound, client>>

ExtractNext == CallExtractCommand

ExtractSpec == ExtractInit /\ [][ExtractNext]_vars

----------------------------------------------------------------------------
(* Scheduled restarts *)

\* a step in which forceRestartRecognition passes its resets, or interruptSpeaking
\* passes its delay
ForcedRestartStep ==
    \/ waits'["forceDelay"] > waits["forceDelay"]
    \/ \E i \in Dispatches :
          dispatch[i].pc = "ttsDelay" /\ dispatch'[i].pc = "forceDelay"
    \/ waits'["intrDelay"] < waits["intrDelay"]

\* C4: in every reachable state at most one scheduled-restart timer is armed,
\* and it is the one pendingRestart holds; forceRestartRecognition and
\* interruptSpeaking leave none armed when they go on to start recognition.
C4_SingleRestartTimer ==
    /\ [](restartTimers <= 1 /\ (pendingRestart <=> restartTimers = 1))
    /\ [][ForcedRestartStep => restartTimers' = 0]_vars

\* scheduleRestart ran while a timer was pending, and one timer is armed
C4_Witness ==
    obs.superseded /\ pendingRestart /\ restartTimers = 1

----------------------------------------------------------------------------
(* The recognizer's end event *)

\* the recognizer delivers its end event
RecognizerEndStep == recognition # "inactive" /\ recognition' = "inactive"

ExactlyOneRestart == restartTimers' = 1 /\ pendingRestart'

\* C7 as claimed: in every state but Speaking, an end event while unpaused and
\* not in local mode leaves exactly one restart scheduled.
C7_RestartInEveryStateButSpeaking ==
    [][(RecognizerEndStep /\ ~isPaused /\ ~useLocalDetection
          /\ currentState # "speaking")
       => ExactlyOneRestart]_vars

\* C7 as the code has it: in Idle, Waking and Listening an end event while
\* unpaused and not in local mode leaves exactly one restart scheduled; in
\* Thinking and Error, with isSpeaking unset, it schedules none.
C7_RestartWhereListeningMatters ==
    [][(RecognizerEndStep /\ ~isPaused /\ ~useLocalDetection)
       => /\ currentState \in {"idle", "waking", "listening"} => ExactlyOneRestart
          /\ (currentState \in {"thinking", "error"} /\ ~isSpeaking)
                => (restartTimers' = restartTimers
                    /\ pendingRestart' = pendingRestart)]_vars

\* the recognizer had been started, has ended in Idle, and its restart is armed
C7_Witness ==
    /\ audioStream /\ ~useLocalDetection /\ ~isPaused
    /\ recognition = "inactive" /\ ~isListening
    /\ currentState = "idle"
    /\ pendingRestart /\ restartTimers = 1

\* a continuation is suspended that will start the recognizer if it is not listening
RestartInFlight ==
    \/ pendingRestart
    \/ waits["syncDelay"] > 0 \/ waits["forceDelay"] > 0 \/ waits["intrDelay"] > 0
    \/ \E i \in Dispatches : dispatch[i].pc \in {"ttsDelay", "forceDelay"}

\* C6: whenever a dispatch is speaking its reply in state Speaking, unpaused and
\* not in local mode, the recognizer is running (or its end event is still to
\* come), or a restart of it is under way.
C6_RecognizerAliveWhileSpeaking ==
    (/\ currentState = "speaking"
     /\ \E i \in Dispatches : dispatch[i].pc = "speak"
     /\ ~isPaused /\ ~useLocalDetection)
    => (recognition # "inactive" \/ RestartInFlight)

\* C5: between stopWakeWordDetection and the next resumeWakeWordDetection no
\* step starts the recognizer.
C5_NoStartWhilePaused ==
    [][(obs.userPaused /\ obs'.userPaused)
       => ~(recognition = "inactive" /\ recognition' = "starting")]_vars

----------------------------------------------------------------------------
(* Backend round trips *)

\* C8: when the backend's response to a request arrives after that request was
\* resolved by its timeout, handleLateResponse speaks it.
C8_LateResponseSpoken ==
    [][\A r \in Requests :
          (BackendResponseFor(r) /\ requests[r].st = "resolved"
              /\ requests[r].timedOut)
          => lateSpeaks' \ lateSpeaks # {}]_vars

\* C9: a tool.start that arrives while request r is pending on its initial
\* deadline replaces that deadline by the extended one, and the response that
\* arrives while r is pending on the extended deadline resolves a waiting
\* dispatch with the backend's text.
C9_ToolStartExtendsDeadline ==
    /\ [][\A r \in Requests :
            (BackendToolStartFor(r) /\ requests[r].st = "pending"
                /\ requests[r].timer = "initial")
            => requests'[r].timer = "extended"]_vars
    /\ [][\A r \in Requests :
            (BackendResponseFor(r) /\ requests[r].st = "pending"
                /\ requests[r].timer = "extended")
            => \E i \in Dispatches :
                  /\ dispatch[i].pc = "ws"
                  /\ dispatch'[i].pc = "speak"
                  /\ dispatch'[i].action = "api_response"]_vars

----------------------------------------------------------------------------
(* The end of a spoken reply *)

\* utterance u, the reply of dispatch i, ends without having been cancelled
NaturalEndOf(i, u) ==
    /\ dispatch[i].pc = "speak" /\ dispatch[i].utt = u
    /\ utterances[u] = "playing"
    /\ UtteranceEventFor(u)

\* the continuation of dispatch i after its reply has run to its end
DispatchReturns(i) ==
    dispatch[i].pc \in {"ttsDelay", "forceDelay"} /\ dispatch'[i].pc = "free"

\* C3: when the reply of a dispatch ends naturally the state becomes Listening
\* with isSpeaking unset and isInConversation set, and a dispatch goes on to
\* arm the conversation timeout: it is armed when that dispatch returns.
C3_NaturalEndReturnsToListening ==
    /\ [][\A i \in Dispatches, u \in Utterances :
            NaturalEndOf(i, u)
            => /\ currentState' = "listening"
               /\ ~isSpeaking'
               /\ isInConversation'
               /\ \E j \in Dispatches : dispatch'[j].pc = "ttsDelay"]_vars
    /\ [][\A i \in Dispatches :
            DispatchReturns(i)
            => conversationTimeout' = "live" /\ conversationTimers' > 0]_vars

----------------------------------------------------------------------------
(* Interruption *)

\* interruptSpeaking is called in state Speaking
InterruptStep ==
    currentState = "speaking" /\ waits'["intrDelay"] > waits["intrDelay"]

\* interruptSpeaking goes on after its delay
InterruptResumeStep == waits'["intrDelay"] < waits["intrDelay"]

\* the recognizer runs or its start is issued (its end event is not delivered);
\* in local mode, a monitorAudio loop is running; or a start awaits the microphone
PipelineActive ==
    IF useLocalDetection
    THEN \/ isListening /\ localMonitors > 0
         \/ \E k \in {"permLocalNone", "permLocalIntr"} : waits[k] > 0
    ELSE \/ recognition # "inactive"
         \/ \E k \in {"permWebNone", "permWebIntr"} : waits[k] > 0

\* C2: the call of interruptSpeaking in state Speaking leaves nothing playing,
\* the dispatch that awaited the speak promise it held released, isSpeaking unset
\* and the state Listening; when it has gone on after its delay the pipeline is
\* active.
C2_InterruptionContract ==
    /\ [][InterruptStep
          => /\ \A u \in Utterances : utterances'[u] # "playing"
             /\ \A i \in Dispatches :
                   (dispatch[i].pc = "speak" /\ dispatch[i].utt = currentSpeechResolve)
                   => dispatch'[i].pc # "speak"
             /\ ~isSpeaking'
             /\ currentState' = "listening"]_vars
    /\ [][InterruptResumeStep => PipelineActive']_vars

----------------------------------------------------------------------------
(* Every command is answered aloud *)

\* dispatch i waits for the backend: for a message on the socket or for the fetch
AwaitingReply(i) == dispatch[i].pc \in {"ws", "rest"}

\* the reply of dispatch i is being spoken
ReplySpoken(i) ==
    /\ dispatch[i].pc = "speak"
    /\ dispatch[i].action \in {"api_response", "local"}
    /\ currentState = "speaking"
    /\ utterances[dispatch[i].utt] = "playing"

----------------------------------------------------------------------------
(* No state to get stuck in *)

\* nothing is due: no timer or delay is armed, no dispatch, request or late
\* reply is under way, the synthesizer and the recognizer owe no event, and no
\* monitorAudio loop runs. Only the user or the backend can make the next step.
Quiescent ==
    /\ restartTimers = 0 /\ listeningTimers = 0 /\ conversationTimers = 0
    /\ \A k \in WaitKinds : waits[k] = 0
    /\ \A i \in Dispatches : dispatch[i].pc = "free"
    /\ \A u \in Utterances : utterances[u] = "free"
    /\ \A r \in Requests : requests[r].timer = "none"
    /\ lateSpeaks = {}
    /\ recognition \in {"inactive", "active"}
    /\ localMonitors = 0

\* C1: the state machine does not come to rest outside Idle and Listening: with
\* no backend to change the state and the microphone not muted, when nothing is
\* due the state is Idle or Listening.
C1_NoRestOutsideIdleListening ==
    (budget.boot = 0 /\ lunaAPI = "absent" /\ ~isPaused /\ Quiescent)
    => currentState \in {"idle", "listening"}

----------------------------------------------------------------------------
(* A backend call that fails *)

\* the fetch of dispatch i rejects, or answers with a status that is not ok
RestFails(i) ==
    /\ dispatch[i].pc = "rest"
    /\ dispatch'[i].pc # "rest"
    /\ dispatch'[i].action # "api_response"

\* the backend reports an error while request r waits for its answer
SocketErrorFor(r) ==
    /\ BackendError
    /\ onError = r
    /\ requests[r].st = "pending"

\* C11 as claimed: a backend call that fails takes the state machine to Error.
C11_FailedCallEntersError ==
    [][\A i \in Dispatches : RestFails(i) => currentState' = "error"]_vars

\* C11 as the code has it: a backend call that fails, by a fetch that rejects or
\* by an error message on the socket, is answered with the local reply: the
\* dispatch speaks it in state Speaking, and the state is not Error.
C11_FailedCallAnsweredLocally ==
    /\ [][\A i \in Dispatches :
            RestFails(i)
            => /\ dispatch'[i].pc = "speak" /\ dispatch'[i].action = "local"
               /\ currentState' = "speaking" /\ isSpeaking']_vars
    /\ [][\A r \in Requests :
            SocketErrorFor(r)
            => /\ dispatch'[requests[r].disp].pc = "speak"
               /\ dispatch'[requests[r].disp].action = "local"
               /\ currentState' = "speaking" /\ isSpeaking']_vars

\* the client was never connected, and the dispatch that called it by REST
\* speaks the local reply
C11_Witness ==
    /\ lunaAPI = "present" /\ ~isConnected
    /\ budget.backend = MaxBackendEvents
    /\ currentState = "speaking"
    /\ \E i \in Dispatches :
          dispatch[i].pc = "speak" /\ dispatch[i].action = "local"

----------------------------------------------------------------------------
(* The transition table *)

\* the table of canTransitionTo
LegalTransitions ==
    {<<"idle", "waking">>, <<"idle", "error">>,
     <<"waking", "listening">>, <<"waking", "idle">>, <<"waking", "error">>,
     <<"listening", "thinking">>, <<"listening", "idle">>, <<"listening", "error">>,
     <<"thinking", "speaking">>, <<"thinking", "idle">>, <<"thinking", "error">>,
     <<"speaking", "idle">>, <<"speaking", "listening">>, <<"speaking", "error">>,
     <<"error", "idle">>}

\* the transitions setState has performed, oldest first: each record of the
\* history holds the state that was left, and the last one led to currentState
PerformedTransitions ==
    LET visited == [k \in 1..Len(stateHistory) |-> stateHistory[k].state]
                       \o <<currentState>>
    IN {<<visited[k], visited[k + 1]>> : k \in 1..Len(stateHistory)}

\* C12: with no backend to send state changes, every transition the system has
\* performed is a transition of the table.
C12_OnlyLegalTransitions ==
    lunaAPI = "absent" => PerformedTransitions \subseteq LegalTransitions

----------------------------------------------------------------------------
(* setState: what it rejects, what it ignores, what it records and whom it tells *)

StateManagerUnchanged ==
    UNCHANGED <<currentState, previousState, stateHistory, postTransitions>>

\* C13: a call of setState with the current state returns success, leaves
\* currentState, previousState and the history as they were, invokes no
\* subscriber and no transition callback, and arms no post-transition timer.
C13_SameStateIsNoOp ==
    [][\A x \in StateArguments :
          (CallSetStateWith(x) /\ x = currentState)
          => /\ lastCall'.returned = "true"
             /\ lastCall'.invoked = <<>>
             /\ StateManagerUnchanged]_vars

\* setState was called with the state that was current
C13_Witness ==
    /\ lastCall.arg = currentState
    /\ lastCall.returned = "true"
    /\ lastCall.invoked = <<>>

\* C14: a call of setState with a value that is not a state returns failure,
\* leaves currentState, previousState and the history as they were and invokes
\* no subscriber.
C14_InvalidStateRejected ==
    [][\A x \in StateArguments :
          (CallSetStateWith(x) /\ x \notin States)
          => /\ lastCall'.returned = "false"
             /\ lastCall'.invoked = <<>>
             /\ StateManagerUnchanged]_vars

\* setState was called with a value that is not a state
C14_Witness ==
    /\ lastCall.arg \notin States
    /\ lastCall.calls > 0 /\ lastCall.arg # "none"
    /\ lastCall.returned = "false"

\* the history holds at most HistoryLimit records, oldest first
RecentAndChronological(h) ==
    /\ Len(h) <= HistoryLimit
    /\ \A k \in 1..(Len(h) - 1) : h[k].timestamp < h[k + 1].timestamp

\* the history h with one record for the state that is left, the oldest record
\* evicted when that makes more than HistoryLimit
WithOneMoreRecord(h, left) ==
    LET record == [state |-> left, timestamp |-> Now(h)]
    IN IF Len(h) < HistoryLimit THEN Append(h, record)
       ELSE Append(Tail(h), record)

\* C15: an accepted transition appends one record, evicting the oldest one
\* when the history held HistoryLimit records, and the history is always at
\* most HistoryLimit records in chronological order.
C15_HistoryBoundedAndOrdered ==
    /\ [][\A x \in States :
            (CallSetStateWith(x) /\ x # currentState)
            => stateHistory' = WithOneMoreRecord(stateHistory, currentState)]_vars
    /\ [](RecentAndChronological(stateHistory))

\* the subscribers among the callbacks a call invoked
SubscribersInvoked(call) ==
    SelectSeq(call.invoked, LAMBDA c : c.event \in {"stateChange", "state", "from"})

\* C16: an accepted transition from a to b invokes, before setState returns,
\* the subscribers of stateChange, of state:b and of from:a, in that order, each
\* with b and a, and while each runs getCurrentState() is b.
C16_SubscribersNotifiedInOrder ==
    [][\A x \in States :
          (CallSetStateWith(x) /\ x # currentState)
          => SubscribersInvoked(lastCall') =
                <<[event |-> "stateChange", key |-> "none", to |-> x,
                   from |-> currentState, current |-> x],
                  [event |-> "state", key |-> x, to |-> x,
                   from |-> currentState, current |-> x],
                  [event |-> "from", key |-> currentState, to |-> x,
                   from |-> currentState, current |-> x]>>]_vars

\* a transition was accepted and its three subscribers have run
C16_Witness ==
    /\ lastCall.returned = "true"
    /\ lastCall.arg = currentState
    /\ Len(SubscribersInvoked(lastCall)) = 3
    /\ previousState # "none"

----------------------------------------------------------------------------
(* Interrupting twice *)

\* interruptSpeaking called once in state record s, and gone on after its delay
InterruptedOnce(s) ==
    InterruptResume(DelWait(interruptSpeaking(s), "intrDelay"))

\* interruptSpeaking from its first statement to its delay(300)
InterruptCalled(s) ==
    LET s1 == [SynthesisCancel(s) EXCEPT !.isSpeaking = FALSE,
                                         !.currentSpeechResolve = 0]
    IN AddWait(setState(s1, "listening"), "intrDelay")

\* two calls of interruptSpeaking, one after the other in one task: the
\* continuation of the speak promise the first call resolves runs when the
\* task has returned
interruptSpeakingTwice(s) ==
    LET u == s.currentSpeechResolve
        called == InterruptCalled(InterruptCalled(s))
    IN IF u # 0 THEN ResolveSpeak(called, u) ELSE called

\* interruptSpeaking called twice in succession in state record s: both calls
\* run to their delay(300), then both go on, in the order of their timers
InterruptedTwice(s) ==
    LET called == interruptSpeakingTwice(s)
        first == InterruptResume(DelWait(called, "intrDelay"))
    IN InterruptResume(DelWait(first, "intrDelay"))

\* PipelineActive, of a state record
PipelineActiveIn(s) ==
    IF s.useLocalDetection
    THEN \/ s.isListening /\ s.localMonitors > 0
         \/ \E k \in {"permLocalNone", "permLocalIntr"} : s.waits[k] > 0
    ELSE \/ s.recognition # "inactive"
         \/ \E k \in {"permWebNone", "permWebIntr"} : s.waits[k] > 0

\* what the interruption contract speaks of
ObservableCondition(s) ==
    [state |-> s.currentState, isSpeaking |-> s.isSpeaking,
     speakPending |-> s.currentSpeechResolve # 0,
     recognitionActive |-> PipelineActiveIn(s),
     conversationTimers |-> s.conversationTimers]

Interrupted ==
    [state |-> "listening", isSpeaking |-> FALSE, speakPending |-> FALSE,
     recognitionActive |-> TRUE, conversationTimers |-> 1]

\* C17: in state Speaking with the microphone granted, two calls of interruptSpeaking in succession leave
\* what one call leaves: state Listening, isSpeaking unset, no speak promise
\* pending, the recognition pipeline active and one conversation timeout armed.
C17_InterruptTwiceAsOnce ==
    (currentState = "speaking" /\ audioStream)
    => /\ ObservableCondition(InterruptedTwice(S)) = ObservableCondition(InterruptedOnce(S))
       /\ ObservableCondition(InterruptedTwice(S)) = Interrupted

----------------------------------------------------------------------------
(* The wake phrase with a command *)

\* the recognizer delivers the final transcript t
FinalTranscript(t) ==
    /\ recognition \in {"active", "stopping"}
    /\ Can("transcripts")
    /\ Step(handleRecognitionResult(Heard(S, t, TRUE), t, TRUE))

\* a wake phrase followed by a command of more than MinCommandLength characters
WakeWithCommand ==
    {t \in Transcripts :
        detectWakeWord(t) /\ Len(extractCommandFromTranscript(t)) > MinCommandLength}

\* the transition this step performs first is from state a to state b
FirstTransition(a, b) ==
    LET n == Len(stateHistory)
    IN /\ Len(stateHistory') > n
       /\ stateHistory'[n + 1].state = a
       /\ b = IF Len(stateHistory') > n + 1 THEN stateHistory'[n + 2].state
              ELSE currentState'

\* heard in Idle outside a conversation, the transcript sets Waking and arms the
\* timer that dispatches the command, not the one that sets Listening
WakeArmsDispatch ==
    [][\A t \in WakeWithCommand :
          (currentState = "idle" /\ ~isInConversation /\ FinalTranscript(t))
          => /\ currentState' = "waking"
             /\ waits'["wakeCmd"] = waits["wakeCmd"] + 1
             /\ waits'["wakeListen"] = waits["wakeListen"]]_vars

\* the timer dispatches the command from Waking straight into Thinking
DispatchFromWaking ==
    [][(currentState = "waking" /\ WakeCmdFires)
          => FirstTransition("waking", "thinking")]_vars

\* the reply of the backend to that dispatch, spoken to its end, leaves the state
\* Listening in a conversation
RoundTripEndsListening ==
    [][\A i \in obs.wake, u \in Utterances :
          (NaturalEndOf(i, u) /\ dispatch[i].action = "api_response")
          => currentState' = "listening" /\ isInConversation']_vars

\* C18: in Idle outside a conversation a final transcript with a wake phrase and
\* a command of more than two characters sets Waking; the command is dispatched
\* from Waking to Thinking with no Listening between; and when the backend has
\* answered and the reply was spoken to its end the state is Listening with
\* isInConversation set.
C18_WakeWithCommandDispatched ==
    WakeArmsDispatch /\ DispatchFromWaking /\ RoundTripEndsListening

----------------------------------------------------------------------------
(* The listening timeout *)

\* everything but the handle and the timer of the listening timeout, and but the
\* closures of settled requests
OtherThanListeningTimeout ==
    <<currentState, previousState, stateHistory, postTransitions, lastCall,
      isListening, isRestarting, isPaused, isSpeaking, isInConversation,
      useLocalDetection, consecutiveErrors, pendingRestart, restartTimers,
      conversationTimeout, conversationTimers, recognition, audioStream,
      utterances, currentSpeechResolve, waits, dispatch, localMonitors,
      speechDetector, lunaAPI, isConnected, useWebSocket, onResponse, onError,
      onToolStart, onStateChange, lateSpeaks, budget, obs, extraction,
      threadId, outbound, client>>

\* no request changes; the closure of a settled request that nothing refers to
\* any more may be released
NoRequestChanges ==
    \A r \in Requests :
        \/ requests'[r] = requests[r]
        \/ requests[r].st = "resolved" /\ requests'[r] = FreeRequest

\* a step in which onCommandReceived begins a dispatch
CommandReceivedStep ==
    \E i \in Dispatches : dispatch[i].pc = "free" /\ dispatch'[i].pc # "free"

\* an utterance that was not spoken before is spoken
SpokenAnew ==
    \E u \in Utterances :
        utterances[u] = "free" /\ utterances'[u] = "playing"
        /\ currentSpeechResolve' = u

\* C19: the timer of a wake phrase without a command sets Listening and arms the
\* listening timeout; its expiry in state Listening speaks a re-prompt and sets
\* Idle; a command received while it is armed cancels it; and its expiry in
\* another state changes nothing.
C19_ListeningTimeout ==
    /\ [][WakeListenFires
          => /\ currentState' = "listening"
             /\ listeningTimeout' = "live" /\ listeningTimers' = 1]_vars
    /\ [][(ListeningTimeoutFires /\ currentState = "listening")
          => SpokenAnew /\ currentState' = "idle"]_vars
    /\ [][(listeningTimeout = "live" /\ CommandReceivedStep)
          => listeningTimeout' = "null" /\ listeningTimers' = 0]_vars
    /\ [][(ListeningTimeoutFires /\ currentState # "listening")
          => UNCHANGED OtherThanListeningTimeout /\ NoRequestChanges]_vars

\* the listening timeout armed by the wake timer has expired in state Listening:
\* the re-prompt is being spoken in state Idle
C19_Witness ==
    /\ currentState = "idle" /\ previousState = "listening"
    /\ listeningTimeout = "stale"
    /\ currentSpeechResolve # 0
    /\ \A i \in Dispatches : dispatch[i].pc = "free"

----------------------------------------------------------------------------
(* The conversation timeout *)

\* the callback of the conversation timeout sets Idle
ConversationTimeoutSetsIdle == ConvDelayFires /\ currentState # "idle"

\* C20: the transition to Idle that the conversation timeout makes is made from
\* Listening, never while a newer dispatch is in Thinking or Speaking.
C20_IdleOnlyFromListening ==
    [][ConversationTimeoutSetsIdle
          => /\ currentState = "listening"
             /\ \A i \in Dispatches : dispatch[i].pc \notin {"ws", "rest", "speak"}]_vars

----------------------------------------------------------------------------
(* The guards of startWakeWordDetection *)

\* between state records s and r no start was issued: the recognizer was not
\* started, no monitor loop was begun and no caller waits for the microphone
NoStartIssued(s, r) ==
    /\ r.recognition = s.recognition
    /\ r.isListening = s.isListening
    /\ r.localMonitors = s.localMonitors
    /\ r.waits = s.waits

\* C21: called while recognition is listening, while a scheduled restart is
\* pending or while the microphone is paused, startWakeWordDetection issues no
\* start.
C21_StartGuards ==
    (isListening \/ pendingRestart \/ isPaused)
    => NoStartIssued(S, startWakeWordDetection(S, 0))

----------------------------------------------------------------------------
(* The fallback to local detection *)

\* a step in which recognition.start() is called: the recognizer begins to
\* start, or it is running and the call's 'already started' sets isListening
PrimaryStartCalled ==
    \/ recognition = "inactive" /\ recognition' = "starting"
    \/ /\ recognition # "inactive" /\ recognition' = recognition
       /\ ~isListening /\ isListening'
       /\ localMonitors' = localMonitors

\* C22: once useLocalDetection is set it stays set, and no step calls start on
\* the primary recognizer any more.
C22_LocalModePermanent ==
    [][useLocalDetection => (useLocalDetection' /\ ~PrimaryStartCalled)]_vars

\* the supervisor has switched to local detection by itself
SwitchedToLocal == useLocalDetection /\ consecutiveErrors >= NetworkErrorThreshold

\* C23: when the recognizer has reported a network error after each of three
\* starts in a row, unpaused and in Idle or Listening, the supervisor has
\* switched to local detection.
C23_NetworkErrorsTriggerFallback ==
    obs.networkRuns >= 3 => useLocalDetection

\* no timer or delay is armed, no dispatch, request or late reply is under way
\* and the synthesizer and the recognizer owe no event
NothingDue ==
    /\ restartTimers = 0 /\ listeningTimers = 0 /\ conversationTimers = 0
    /\ \A k \in WaitKinds : waits[k] = 0
    /\ \A i \in Dispatches : dispatch[i].pc = "free"
    /\ \A u \in Utterances : utterances[u] = "free"
    /\ \A r \in Requests : requests[r].timer = "none"
    /\ lateSpeaks = {}
    /\ recognition \in {"inactive", "active"}

\* C24: after the switch to local detection the local detector comes to run
\* without an action of the user: when nothing is due any more, unpaused, the
\* supervisor is listening and a monitorAudio loop runs.
C24_LocalDetectionStarts ==
    (SwitchedToLocal /\ ~isPaused /\ NothingDue)
    => (isListening /\ localMonitors > 0)

----------------------------------------------------------------------------
(* A dead recognizer *)

\* a call of startWakeWordDetection waits for the microphone
StartInProgress ==
    \/ \E k \in {"permWebNone", "permWebIntr"} : waits[k] > 0
    \/ \E i \in Dispatches : dispatch[i].pc = "perm"

\* C25: whenever the recognizer is stopped while the microphone is granted and
\* unpaused, local detection is off and the state is Idle or Listening, a
\* restart is pending or a start is in progress.
C25_NoDeadRecognizer ==
    (/\ recognition = "inactive"
     /\ audioStream /\ ~isPaused /\ ~useLocalDetection
     /\ currentState \in {"idle", "listening"})
    => (RestartInFlight \/ StartInProgress)

----------------------------------------------------------------------------
(* The command after the wake phrase *)

\* C26: for every wake phrase w of the list and every command text cmd,
\* extractCommandFromTranscript(w + ' ' + cmd) returns cmd trimmed.
C26_ExtractRoundTrip ==
    extraction.called => extraction.returned = Trim(extraction.cmd)

----------------------------------------------------------------------------
(* The thread id *)

\* a command message goes out in this step
CommandSent ==
    /\ Len(outbound') = Len(outbound) + 1
    /\ outbound'[Len(outbound')].type \in {"input.text", "chat"}

\* C27: every command message sent to the backend, over the socket and over
\* REST, carries the current thread id, and the thread id never changes.
C27_ThreadIdCarried ==
    [][/\ CommandSent => outbound'[Len(outbound')].thread_id = threadId
       /\ threadId' = threadId]_vars

----------------------------------------------------------------------------
(* The end of a conversation *)

InConversation == currentState = "listening" /\ isInConversation

\* C28: conversation mode is bounded: Listening with isInConversation set gives
\* way to Idle with the flag cleared when no final transcript, mic tap or backend
\* event comes any more, interim transcripts or not. So the machine does not
\* come to rest there: when nothing is due, it is not in a conversation in
\* Listening.
C28_ConversationBounded == Quiescent => ~InConversation

----------------------------------------------------------------------------
(* Idle ends the conversation *)

----------------------------------------------------------------------------
(* A final transcript in Listening *)

\* no command is dispatched, the state stays Listening and a fresh conversation
\* timeout is pending
ListeningGoesOn ==
    /\ ~CommandReceivedStep
    /\ currentState' = "listening"
    /\ conversationTimeout' = "live" /\ conversationTimers' = 1

ListeningGoesOnAsBefore ==
    /\ ~CommandReceivedStep
    /\ currentState' = "listening"
    /\ isInConversation' = isInConversation
    /\ UNCHANGED <<listeningTimeout, listeningTimers>>
    /\ IF isInConversation
       THEN conversationTimeout' = "live" /\ conversationTimers' = 1
       ELSE conversationTimeout' = "null" /\ conversationTimers' = 0

----------------------------------------------------------------------------
(* A transcript in Idle *)

\* the recognizer delivers the interim transcript t
InterimTranscript(t) ==
    /\ recognition \in {"active", "stopping"}
    /\ Can("transcripts")
    /\ Step(handleRecognitionResult(Heard(S, t, FALSE), t, FALSE))

\* the transcripts whose normalized text contains a wake phrase
WakeTranscripts ==
    {t \in Transcripts :
        \E k \in 1..Len(allWakeWords) :
            Includes(Trim(CollapseSpaces(StripPunctuation(ToLowerCase(t)))),
                     allWakeWords[k])}

IdleOutsideConversation == currentState = "idle" /\ ~isInConversation

----------------------------------------------------------------------------
(* Transcripts that are ignored *)

\* the result event with transcript t, final or interim
Transcript(t, isFinal) == IF isFinal THEN FinalTranscript(t) ELSE InterimTranscript(t)

\* no transition, no dispatch, the synthesizer is left alone and the two flags
\* keep their values
NothingHeard ==
    /\ currentState' = currentState
    /\ ~CommandReceivedStep
    /\ UNCHANGED <<utterances, currentSpeechResolve, isSpeaking, isInConversation>>

\* C32: a transcript, interim or final, that arrives in Thinking, and a
\* transcript that arrives in Speaking and is not both final and a wake-phrase
\* match, causes no transition, no dispatch, no interruption of the speech and
\* no change of isSpeaking or isInConversation.
C32_IgnoredTranscripts ==
    [][\A t \in Transcripts, isFinal \in BOOLEAN :
          (/\ \/ currentState = "thinking"
              \/ currentState = "speaking" /\ ~(isFinal /\ t \in WakeTranscripts)
           /\ Transcript(t, isFinal))
          => NothingHeard]_vars

----------------------------------------------------------------------------
(* The callback of a scheduled restart *)

\* C33: when the timer of a scheduled restart fires while the mic is paused or
\* the supervisor is listening, no start of a recognizer is issued and
\* isListening and isPaused keep their values.
C33_RestartRechecks ==
    [][(RestartTimerFires /\ (isPaused \/ isListening))
       => /\ UNCHANGED <<isListening, isPaused, recognition, localMonitors, waits>>
          /\ \A i \in Dispatches : dispatch'[i].pc = "perm" => dispatch[i].pc = "perm"]_vars

\* the timer has fired while the supervisor was listening, and it still is
C33_Witness == obs.skipped /\ isListening /\ ~isPaused /\ restartTimers = 0

----------------------------------------------------------------------------
(* The backend's state.change *)

\* C34: a state.change message does not change the state while isSpeaking is
\* true, and a state.change to idle does not change it while isInConversation is
\* true, whichever onStateChange handler is installed.
C34_BackendDoesNotOverride ==
    [][\A state \in States :
          (/\ isSpeaking \/ (state = "idle" /\ isInConversation)
           /\ BackendStateChangeTo(state))
          => currentState' = currentState]_vars

----------------------------------------------------------------------------
(* Dispatches of commands *)

\* the runs of onCommandReceived that wait for the backend or for their utterance
InFlight == {i \in Dispatches : dispatch[i].pc \in {"rest", "ws", "speak"}}

\* C35: at most one run of onCommandReceived is between its call and the end of
\* its backend round trip and TTS playback.
C35_OneDispatchInFlight == Cardinality(InFlight) <= 1

----------------------------------------------------------------------------
(* The handlers of the API client across requests *)

\* the requests of processCommand whose promise is not settled yet
Outstanding == {r \in Requests : requests[r].st = "pending"}

\* C36: whenever no request of processCommand is outstanding, onResponse,
\* onError and onToolStart are the handlers the application installed, not the
\* closure of a request.
C36_HandlersRestored ==
    Outstanding = {} => (onResponse = 0 /\ onError = 0 /\ onToolStart = 0)

----------------------------------------------------------------------------
(* Starts of the primary recognizer *)

\* a step in which recognition.start() is called on a recognizer that is
\* starting or started: the call throws 'already started', the catch sets
\* isListening
DuplicateStart ==
    /\ recognition # "inactive" /\ recognition' = recognition
    /\ ~isListening /\ isListening'
    /\ localMonitors' = localMonitors

\* C37: no step calls start on the primary recognizer while it is starting or
\* started.
C37_NoDuplicateStart == [][~DuplicateStart]_vars

----------------------------------------------------------------------------
(* The post-transition callbacks *)

\* C38: the post-transition callbacks of a transition from a to b are passed
\* from = a and to = b, whatever was accepted before their timer fired.
C38_PostTransitionReportsFrom ==
    lastCall.post # NoPost => lastCall.post.from = lastCall.post.left

----------------------------------------------------------------------------
(* The diagnostic reads of the StateManager *)

\* C39: getStateDuration and export leave currentState, previousState and the
\* history, content and order, as they were.
C39_ReadsChangeNothing ==
    [][CallGetStateDuration
       => UNCHANGED <<currentState, previousState, stateHistory>>]_vars

----------------------------------------------------------------------------
(* The queue of outbound messages *)

\* the messages given to send(), in order
SentMessages == [i \in DOMAIN client.sent |-> client.sent[i].message]

\* C40: processMessageQueue ends, the queue is empty whenever the current
\* socket is open, and the messages are sent once each in the order in which
\* they were passed to sendWsMessage.
C40_QueueDrainsInOrder ==
    /\ ~client.endless
    /\ CurrentSocketOpen(client) => client.messageQueue = <<>>
    /\ \A i, j \in DOMAIN SentMessages : i < j => SentMessages[i] < SentMessages[j]

====
